---------------------------- MODULE Spec2Model ----------------------------
(***************************************************************************)
(* Unsigned big-integer engine (bigInt.h) and the Miller-Rabin test built  *)
(* on it (helper.cpp, miller_rabin.h).                                     *)
(*                                                                         *)
(* A BigInt is its limb vector: a sequence of limbs, least significant     *)
(* first, so limbs[i] of the source is a[i+1] here.  A limb is a uint64_t  *)
(* in the source; here a limb has wbits bits, a width fixed for the whole  *)
(* behaviour by Init, and every uint64_t operation is taken modulo         *)
(* Base = 2^wbits exactly where the source wraps modulo 2^64.              *)
(***************************************************************************)
EXTENDS Integers, Sequences, FiniteSets, TLC

VARIABLES
    wbits,      \* width of a limb in bits (64 in the source)
    x, y, z,    \* the operands handed to the operation
    sh,         \* shift count handed to << and >>
    str,        \* text handed to the hex constructor
    rounds,     \* round count handed to the primality test
    op,         \* the operation that produced the results ("none": not yet run)
    res,        \* the returned BigInt (first of a pair)
    res2,       \* second of a returned pair (remainder)
    out,        \* returned text
    verdict,    \* returned boolean
    err,        \* the exception thrown, "none" when the operation returned
    loop        \* local variables of a loop that is running, <<>> outside one

vars == <<wbits, x, y, z, sh, str, rounds, op, res, res2, out, verdict, err, loop>>

-----------------------------------------------------------------------------
(* Bounds of the model *)

\* largest small n handed to the deterministic base selection
MaxSmallN == 64
\* largest one-limb candidate whose verdict is compared across round counts
MaxCandidate == 127

\* limb width of the arithmetic specifications
LimbBits == 2
\* most limbs of an input operand
MaxLimbs == 3
\* limb width of the primality specification: candidates are 0 .. 2^MRBits - 1
MRBits == 10
\* largest round count handed to the primality test
MaxRounds == 1
\* hex digits packed into one limb by the text specifications (16 in the source)
HexDigitsPerLimb == 2
\* longest text handed to the hex constructor
MaxHexLen == 4
\* most '0' digits prepended to a text
MaxPad == 2
\* largest p and q, and largest e, handed to the RSA driver
MaxP == 19
MaxE == 8
\* largest n and largest round count handed to chooseBases
MaxBaseN == 8
MaxDrawRounds == 4

-----------------------------------------------------------------------------
(* Machine words *)

RECURSIVE Pow2(_)
Pow2(k) == IF k = 0 THEN 1 ELSE 2 * Pow2(k - 1)

\* one more than the largest limb
Base == Pow2(wbits)

\* UINT64_MAX
UINT64_MAX == Base - 1

\* uint64_t arithmetic wraps
Wrap(v) == ((v % Base) + Base) % Base

\* a | b on words
RECURSIVE BitOr(_, _)
BitOr(a, b) ==
    IF a = 0 THEN b
    ELSE IF b = 0 THEN a
    ELSE (IF (a % 2 = 1) \/ (b % 2 = 1) THEN 1 ELSE 0) + 2 * BitOr(a \div 2, b \div 2)

\* a & b on words
RECURSIVE BitAnd(_, _)
BitAnd(a, b) ==
    IF a = 0 \/ b = 0 THEN 0
    ELSE (IF (a % 2 = 1) /\ (b % 2 = 1) THEN 1 ELSE 0) + 2 * BitAnd(a \div 2, b \div 2)

\* limb << k and limb >> k for 0 < k < wbits
WordShl(v, k) == (v * Pow2(k)) % Base
WordShr(v, k) == v \div Pow2(k)

-----------------------------------------------------------------------------
(* BigInt: construction, normalisation, predicates *)

\* the result slot of an operation that threw
NoResult == <<>>

\* BigInt::normalize
RECURSIVE normalize(_)
normalize_skip(limbs) == limbs
normalize(limbs) ==
    IF Len(limbs) > 1 /\ limbs[Len(limbs)] = 0
    THEN normalize(SubSeq(limbs, 1, Len(limbs) - 1))
    ELSE limbs

\* a vector of n zero limbs: limbs.resize(n), limbs.assign(n, 0)
RECURSIVE ZeroLimbs(_)
ZeroLimbs(n) == IF n = 0 THEN <<>> ELSE Append(ZeroLimbs(n - 1), 0)

\* BigInt()
BigIntDefault == <<0>>

\* BigInt(uint64_t n)
BigIntFromWord(n) == normalize(<<n>>)

is_zero(a) == Len(a) = 1 /\ a[1] = 0

is_even(a) == BitAnd(a[1], 1) = 0

\* operator== and operator!=
Eq(a, b) == a = b
Neq(a, b) == a # b

\* operator<
RECURSIVE LessFrom(_, _, _)
LessFrom(a, b, i) ==
    IF i < 1 THEN FALSE
    ELSE IF a[i] # b[i] THEN a[i] < b[i]
    ELSE LessFrom(a, b, i - 1)

\* the limb loop walking from the least significant limb upwards
RECURSIVE LessLow(_, _, _)
LessLow(a, b, i) ==
    IF i > Len(a) THEN FALSE
    ELSE IF a[i] # b[i] THEN a[i] < b[i]
    ELSE LessLow(a, b, i + 1)

Less_lowfirst(a, b) ==
    IF Len(a) # Len(b) THEN Len(a) < Len(b)
    ELSE LessLow(a, b, 1)

Less(a, b) ==
    IF Len(a) # Len(b) THEN Len(a) < Len(b)
    ELSE LessFrom(a, b, Len(a))

Greater(a, b) == Less(b, a)
LessEq(a, b) == ~Greater(a, b)
GreaterEq(a, b) == ~Less(a, b)

-----------------------------------------------------------------------------
(* The numeric value of a limb vector (specification side only) *)

RECURSIVE Value(_)
Value(a) == IF Len(a) = 0 THEN 0 ELSE a[1] + Base * Value(Tail(a))

\* the normalized limb vector of a number
RECURSIVE ToLimbs(_)
ToLimbs(v) == IF v < Base THEN <<v>> ELSE <<v % Base>> \o ToLimbs(v \div Base)

IsNormalized(a) == Len(a) >= 1 /\ (Len(a) = 1 \/ a[Len(a)] # 0)

IsLimbVector(a) == \A i \in 1..Len(a) : a[i] \in 0..(Base - 1)

-----------------------------------------------------------------------------
(* Addition *)

\* mutant: the carry of "a_limb + carry" is forgotten
AddLimb_carry2only(a_limb, b_limb, carry) ==
    LET sum1 == Wrap(a_limb + carry)
        sum2 == Wrap(sum1 + b_limb)
    IN  <<sum2, IF sum2 < b_limb THEN 1 ELSE 0>>

\* one iteration of the loop of operator+: <<limb written, carry out>>
AddLimb(a_limb, b_limb, carry) ==
    LET sum1 == Wrap(a_limb + carry)
        carry1 == sum1 < a_limb
        sum2 == Wrap(sum1 + b_limb)
        carry2 == sum2 < b_limb
    IN  <<sum2, IF carry1 \/ carry2 THEN 1 ELSE 0>>

RECURSIVE AddLoop(_, _, _, _, _)
AddLoop(a, b, i, carry, result) ==
    IF i > Len(result)
    THEN IF carry > 0 THEN Append(result, carry) ELSE result
    ELSE LET a_limb == IF i <= Len(a) THEN a[i] ELSE 0
             b_limb == IF i <= Len(b) THEN b[i] ELSE 0
             s == AddLimb(a_limb, b_limb, carry)
         IN  AddLoop(a, b, i + 1, s[2], [result EXCEPT ![i] = s[1]])

\* operator+
Add(a, b) ==
    LET n == IF Len(a) > Len(b) THEN Len(a) ELSE Len(b)
    IN  AddLoop(a, b, 1, 0, ZeroLimbs(n))

-----------------------------------------------------------------------------
(* Subtraction *)

\* the test "result.limbs[i] < b_limb + borrow", the sum taken in uint64_t
SubNeedsBorrow(limb, b_limb, borrow) == limb < Wrap(b_limb + borrow)

\* one iteration of the loop of operator-: <<limb written, borrow out>>
SubLimb(limb, b_limb, borrow) ==
    IF SubNeedsBorrow(limb, b_limb, borrow)
    THEN <<Wrap(limb + Wrap(Wrap(Wrap(UINT64_MAX - b_limb) - borrow) + 1)), 1>>
    ELSE <<Wrap(Wrap(limb - b_limb) - borrow), 0>>

\* the loop of operator-; an index past the end of result is out of bounds
RECURSIVE SubLoop(_, _, _, _)
SubLoop(result, b, i, borrow) ==
    IF ~(i <= Len(b) \/ borrow # 0) THEN result
    ELSE IF i > Len(result) THEN NoResult
    ELSE LET b_limb == IF i <= Len(b) THEN b[i] ELSE 0
             s == SubLimb(result[i], b_limb, borrow)
         IN  SubLoop([result EXCEPT ![i] = s[1]], b, i + 1, s[2])

\* mutant: the underflow check is missing
SubThrows_never(a, b) == FALSE

\* operator- throws underflow_error
SubThrows(a, b) == Less(a, b)

\* operator- when it returns
Sub(a, b) ==
    LET r == SubLoop(a, b, 1, 0)
    IN  IF r = NoResult THEN NoResult ELSE normalize(r)

-----------------------------------------------------------------------------
(* Shifts *)

\* mutant: the carry out of the top limb is not pushed
RECURSIVE ShlLoop_nopush(_, _, _, _)
ShlLoop_nopush(result, inner_shift, i, carry) ==
    IF i > Len(result) THEN result
    ELSE LET next_carry == WordShr(result[i], wbits - inner_shift)
             limb == BitOr(WordShl(result[i], inner_shift), carry)
         IN  ShlLoop_nopush([result EXCEPT ![i] = limb], inner_shift, i + 1, next_carry)

\* the sub-limb loop of operator<<, limbs low to high
RECURSIVE ShlLoop(_, _, _, _)
ShlLoop(result, inner_shift, i, carry) ==
    IF i > Len(result)
    THEN IF carry > 0 THEN Append(result, carry) ELSE result
    ELSE LET next_carry == WordShr(result[i], wbits - inner_shift)
             limb == BitOr(WordShl(result[i], inner_shift), carry)
         IN  ShlLoop([result EXCEPT ![i] = limb], inner_shift, i + 1, next_carry)

\* limbs.insert(limbs.begin(), shift_limbs, 0)
InsertZeroLimbs(limbs, shift_limbs) == ZeroLimbs(shift_limbs) \o limbs

\* operator<<
Shl(a, shift_bits) ==
    LET shift_limbs == shift_bits \div wbits
        inner_shift == shift_bits % wbits
        r1 == IF inner_shift > 0 THEN ShlLoop(a, inner_shift, 1, 0) ELSE a
        r2 == IF shift_limbs > 0 THEN InsertZeroLimbs(r1, shift_limbs) ELSE r1
    IN  normalize(r2)

\* mutant: the bits leaving a limb are not handed to the limb below
RECURSIVE ShrLoop_noborrow(_, _, _, _)
ShrLoop_noborrow(result, inner_shift, i, borrow) ==
    IF i < 1 THEN result
    ELSE LET limb == WordShr(result[i], inner_shift)
         IN  ShrLoop_noborrow([result EXCEPT ![i] = limb], inner_shift, i - 1, 0)

\* the sub-limb loop of operator>>, limbs high to low
RECURSIVE ShrLoop(_, _, _, _)
ShrLoop(result, inner_shift, i, borrow) ==
    IF i < 1 THEN result
    ELSE LET next_borrow == WordShl(result[i], wbits - inner_shift)
             limb == BitOr(WordShr(result[i], inner_shift), borrow)
         IN  ShrLoop([result EXCEPT ![i] = limb], inner_shift, i - 1, next_borrow)

\* limbs.erase(limbs.begin(), limbs.begin() + shift_limbs)
EraseLowLimbs(limbs, shift_limbs) == SubSeq(limbs, shift_limbs + 1, Len(limbs))

\* operator>>
Shr(a, shift_bits) ==
    LET shift_limbs == shift_bits \div wbits
        inner_shift == shift_bits % wbits
    IN  IF shift_limbs >= Len(a) THEN BigIntFromWord(0)
        ELSE LET r1 == IF shift_limbs > 0 THEN EraseLowLimbs(a, shift_limbs) ELSE a
                 r2 == IF inner_shift > 0
                       THEN ShrLoop(r1, inner_shift, Len(r1), 0) ELSE r1
             IN  normalize(r2)

\* count_leading_zeros and bit_length
RECURSIVE WordBits(_)
WordBits(v) == IF v = 0 THEN 0 ELSE 1 + WordBits(v \div 2)

count_leading_zeros(limb) == wbits - WordBits(limb)

bit_length(a) ==
    IF is_zero(a) THEN 0
    ELSE (Len(a) - 1) * wbits + (wbits - count_leading_zeros(a[Len(a)]))

-----------------------------------------------------------------------------
(* Multiplication *)

\* mutant: the limb already in the result is not accumulated
MulAcc_noaccumulate(a_limb, b_limb, r_limb, carry) == a_limb * b_limb + carry

\* the double-width product of one multiply-accumulate
MulAcc(a_limb, b_limb, r_limb, carry) == a_limb * b_limb + r_limb + carry

\* (uint64_t)product and (uint64_t)(product >> 64)
ProductLow(product) == product % Base
ProductHigh(product) == product \div Base

\* the inner loop for row i over st = <<j, carry, result>>: <<result, carry>>
RECURSIVE MulInner(_, _, _, _)
MulInner(a, b, i, st) ==
    IF st[1] > Len(b) THEN <<st[3], st[2]>>
    ELSE LET k == i + st[1] - 1
             product == MulAcc(a[i], b[st[1]], st[3][k], st[2])
         IN  MulInner(a, b, i, <<st[1] + 1, ProductHigh(product),
                                 [st[3] EXCEPT ![k] = ProductLow(product)]>>)

\* mutant: the carry out of a row is dropped
MulCarryOut_dropped(result, k, carry) == result

\* "if (carry > 0) result.limbs[i + b.limbs.size()] += carry"
MulCarryOut(result, k, carry) ==
    IF carry > 0 THEN [result EXCEPT ![k] = Wrap(result[k] + carry)] ELSE result

\* the outer loop over st = <<i, result>>
RECURSIVE MulOuter(_, _, _)
MulOuter(a, b, st) ==
    IF st[1] > Len(a) THEN st[2]
    ELSE LET row == MulInner(a, b, st[1], <<1, 0, st[2]>>)
         IN  MulOuter(a, b, <<st[1] + 1, MulCarryOut(row[1], st[1] + Len(b), row[2])>>)

\* operator*
Mul(a, b) ==
    IF is_zero(a) \/ is_zero(b) THEN BigIntFromWord(0)
    ELSE normalize(MulOuter(a, b, <<1, ZeroLimbs(Len(a) + Len(b))>>))

-----------------------------------------------------------------------------
(* Division and modulo *)

\* divmod throws runtime_error("Division by zero")
DivmodThrows(dividend, divisor) == is_zero(divisor)

\* the doubling loop over st = <<temp_divisor, power_of_two>>
RECURSIVE DivDouble(_, _)
DivDouble(dividend, st) ==
    IF LessEq(st[1], dividend)
    THEN DivDouble(dividend, <<Shl(st[1], 1), Shl(st[2], 1)>>)
    ELSE st

\* the walk-down loop over st = <<quotient, remainder, temp_divisor,
\* power_of_two>>; it returns st when power_of_two is zero
RECURSIVE DivWalk(_)
DivWalk(st) ==
    IF is_zero(st[4]) THEN st
    ELSE IF GreaterEq(st[2], st[3])
         THEN DivWalk(<<Add(st[1], st[4]), Sub(st[2], st[3]),
                        Shr(st[3], 1), Shr(st[4], 1)>>)
         ELSE DivWalk(<<st[1], st[2], Shr(st[3], 1), Shr(st[4], 1)>>)

\* divmod when it returns: <<quotient, remainder>>
divmod(dividend, divisor) ==
    IF Less(dividend, divisor) THEN <<BigIntFromWord(0), dividend>>
    ELSE LET d == DivDouble(dividend, <<divisor, BigIntFromWord(1)>>)
             w == DivWalk(<<BigIntFromWord(0), dividend, Shr(d[1], 1), Shr(d[2], 1)>>)
         IN  <<normalize(w[1]), normalize(w[2])>>

\* operator/ and operator%
Div(a, b) == divmod(a, b)[1]
Mod(a, b) == divmod(a, b)[2]

-----------------------------------------------------------------------------
(* Hexadecimal text: a text is a sequence of one-character strings *)

DigitChars == <<"0", "1", "2", "3", "4", "5", "6", "7", "8", "9">>
LowerChars == <<"a", "b", "c", "d", "e", "f">>
UpperChars == <<"A", "B", "C", "D", "E", "F">>

\* c - '0', c - 'a', c - 'A': the position of c in a run of characters
Offset(chars, c) == (CHOOSE i \in 1..Len(chars) : chars[i] = c) - 1

InRun(chars, c) == \E i \in 1..Len(chars) : chars[i] = c

\* the constructor rejects c
InvalidHexChar(c) ==
    ~InRun(DigitChars, c) /\ ~InRun(LowerChars, c) /\ ~InRun(UpperChars, c)

\* val of the constructor's loop, for a character it accepts
HexVal(c) ==
    IF InRun(DigitChars, c) THEN Offset(DigitChars, c)
    ELSE IF InRun(LowerChars, c) THEN Offset(LowerChars, c) + 10
    ELSE Offset(UpperChars, c) + 10

\* hex digits in one limb: 16 in the source, one per 4 bits
DigitsPerLimb == wbits \div 4

\* mutant: the 'A'..'F' branch is missing, upper-case letters are rejected
HexThrows_noUpper(hex_str) ==
    \E i \in 1..Len(hex_str) :
        ~InRun(DigitChars, hex_str[i]) /\ ~InRun(LowerChars, hex_str[i])

\* the constructor throws runtime_error("Invalid hex character")
HexThrows(hex_str) == \E i \in 1..Len(hex_str) : InvalidHexChar(hex_str[i])

\* the constructor's loop, from the last character to the first
RECURSIVE ParseLoop(_, _, _, _, _, _)
ParseLoop(hex_str, i, limbs, limb_idx, count, current_limb) ==
    IF i < 1
    THEN IF count > 0 THEN [limbs EXCEPT ![limb_idx] = current_limb] ELSE limbs
    ELSE LET val == HexVal(hex_str[i])
             cur == BitOr(current_limb, WordShl(val, count * 4))
         IN  IF count + 1 = DigitsPerLimb
             THEN ParseLoop(hex_str, i - 1, [limbs EXCEPT ![limb_idx] = cur],
                            limb_idx + 1, 0, 0)
             ELSE ParseLoop(hex_str, i - 1, limbs, limb_idx, count + 1, cur)

\* BigInt(const std::string&) when it returns
BigIntFromHex(hex_str) ==
    IF hex_str = <<>> THEN <<0>>
    ELSE LET num_limbs == (Len(hex_str) + (DigitsPerLimb - 1)) \div DigitsPerLimb
         IN  normalize(ParseLoop(hex_str, Len(hex_str), ZeroLimbs(num_limbs), 1, 0, 0))

\* "oss << std::hex << std::nouppercase << v": the digits of v, no padding
RECURSIVE HexOfWord(_)
HexOfWord(v) ==
    LET digit == IF v % 16 < 10 THEN DigitChars[(v % 16) + 1]
                 ELSE LowerChars[(v % 16) - 9]
    IN  IF v < 16 THEN <<digit>> ELSE Append(HexOfWord(v \div 16), digit)

\* mutant: std::setw is forgotten
PadLeft_none(digits, width) == digits

\* std::setw(width) << std::setfill('0')
RECURSIVE PadLeft(_, _)
PadLeft(digits, width) ==
    IF Len(digits) >= width THEN digits ELSE PadLeft(<<"0">> \o digits, width)

\* the loop of to_hex_string over the lower limbs, high to low
RECURSIVE LowerLimbsText(_, _)
LowerLimbsText(limbs, i) ==
    IF ~(i > 1) THEN <<>>
    ELSE PadLeft(HexOfWord(limbs[i - 1]), DigitsPerLimb) \o LowerLimbsText(limbs, i - 1)

\* BigInt::to_hex_string
to_hex_string(a) ==
    IF Len(a) = 0 THEN <<"0">>
    ELSE HexOfWord(a[Len(a)]) \o LowerLimbsText(a, Len(a))

-----------------------------------------------------------------------------
(* Modular exponentiation *)

\* the loop of powMod_big over st = <<result, base, exp>>: multiply,
\* square, halve the exponent
RECURSIVE PowLoop(_, _)
PowLoop(st, mod) ==
    IF is_zero(st[3]) THEN st[1]
    ELSE IF ~is_even(st[3])
         THEN PowLoop(<<Mod(Mul(st[1], st[2]), mod), Mod(Mul(st[2], st[2]), mod),
                        Shr(st[3], 1)>>, mod)
         ELSE PowLoop(<<st[1], Mod(Mul(st[2], st[2]), mod), Shr(st[3], 1)>>, mod)

\* powMod_big (helper.cpp) when "base % mod" does not throw
powMod_big(base, exp, mod) ==
    PowLoop(<<BigIntFromWord(1), Mod(base, mod), exp>>, mod)

\* modular_pow (helper.cpp): the same loop, the exponent halved before squaring
modular_pow(base, exp, mod) ==
    PowLoop(<<BigIntFromWord(1), Mod(base, mod), exp>>, mod)

\* the loop of powMod (miller_rabin.h): "while (exp > 0)"
RECURSIVE PowLoopMR(_, _)
PowLoopMR(st, mod) ==
    IF ~Greater(st[3], BigIntFromWord(0)) THEN st[1]
    ELSE IF ~is_even(st[3])
         THEN PowLoopMR(<<Mod(Mul(st[1], st[2]), mod), Mod(Mul(st[2], st[2]), mod),
                          Shr(st[3], 1)>>, mod)
         ELSE PowLoopMR(<<st[1], Mod(Mul(st[2], st[2]), mod), Shr(st[3], 1)>>, mod)

\* powMod (miller_rabin.h)
powMod(base, exp, mod) ==
    PowLoopMR(<<BigIntFromWord(1), Mod(base, mod), exp>>, mod)

-----------------------------------------------------------------------------
(* Miller-Rabin on BigInt (helper.cpp) *)

\* mutant: the halvings are not counted
RECURSIVE DecomposeLoop_nocount(_, _)
DecomposeLoop_nocount(s, d) ==
    IF is_even(d) THEN DecomposeLoop_nocount(s, Shr(d, 1)) ELSE <<s, d>>

\* decompose_big: <<s, d>> with the argument = d * 2^s
RECURSIVE DecomposeLoop(_, _)
DecomposeLoop(s, d) ==
    IF is_even(d) THEN DecomposeLoop(s + 1, Shr(d, 1)) ELSE <<s, d>>

decompose_big(n_minus_1) == DecomposeLoop(0, n_minus_1)

\* A 64-bit word can exceed the integers of the checker, so where the size
\* of n matters it is written as three digits of 24 bits, most significant
\* first: n = w[1] * 2^48 + w[2] * 2^24 + w[3].
WordOf(n) == <<0, n \div Pow2(24), n % Pow2(24)>>

\* a < b on such words
WordLess(a, b) ==
    \/ a[1] < b[1]
    \/ a[1] = b[1] /\ a[2] < b[2]
    \/ a[1] = b[1] /\ a[2] = b[2] /\ a[3] < b[3]

\* the value of a word that the checker's integers hold
WordInt(w) == w[2] * Pow2(24) + w[3]

\* 2^64 - 1
WordMax == <<Pow2(16) - 1, Pow2(24) - 1, Pow2(24) - 1>>

\* BigInt::to_uint64: the word of a one-limb value, 2^64 - 1 for a wider one
to_uint64(a) ==
    IF Len(a) = 0 THEN WordOf(0)
    ELSE IF Len(a) > 1 THEN WordMax
    ELSE WordOf(a[1])

\* 4294967296 = 256 * 2^24
Threshold2_32 == <<0, 256, 0>>
\* 3474749660383 = 207111 * 2^24 + 3677407
Threshold6Bases == <<0, 207111, 3677407>>
\* 341550071728321 = 2^48 + 3580754 * 2^24 + 11716801
Threshold7Bases == <<1, 3580754, 11716801>>

\* the deterministic base set for the word w, before the bases >= n are dropped
DeterministicSetWord(w) ==
    IF WordLess(w, Threshold2_32) THEN <<2, 7, 61>>
    ELSE IF WordLess(w, Threshold6Bases) THEN <<2, 3, 5, 7, 11, 13>>
    ELSE IF WordLess(w, Threshold7Bases) THEN <<2, 3, 5, 7, 11, 13, 17>>
    ELSE <<2, 325, 9375, 28178, 450775, 9780504, 1795265022>>

\* mutant: no base is removed
DropNotBelowWord_keep(bases, w) == bases

\* bases.erase(remove_if(a >= n)), n given as a word
RECURSIVE DropNotBelowWord(_, _)
DropNotBelowWord(bases, w) ==
    IF bases = <<>> THEN <<>>
    ELSE IF ~WordLess(WordOf(Head(bases)), w) THEN DropNotBelowWord(Tail(bases), w)
    ELSE <<Head(bases)>> \o DropNotBelowWord(Tail(bases), w)

\* mutant: the search for a base already drawn never finds it
Found_never(bases, a) == FALSE

\* std::find(bases.begin(), bases.end(), a) != bases.end()
Found(bases, a) == \E i \in 1..Len(bases) : bases[i] = a

\* the drawing loop; drawn is what dist(rng) returns, call after call
RECURSIVE DrawLoop(_, _, _)
DrawLoop(bases, rounds_left, drawn) ==
    IF ~(Len(bases) < rounds_left) \/ drawn = <<>> THEN bases
    ELSE IF Found(bases, Head(drawn))
         THEN DrawLoop(bases, rounds_left, Tail(drawn))
         ELSE DrawLoop(Append(bases, Head(drawn)), rounds_left, Tail(drawn))

\* rounds after the two clamps of the probabilistic branch
DrawTarget(n, rounds_in) ==
    LET maxDistinct == IF n > 4 THEN n - 3 ELSE 0
        r0 == IF rounds_in < 0 THEN 0 ELSE rounds_in
    IN  IF r0 > maxDistinct THEN maxDistinct ELSE r0

\* mutant: the deterministic flag is not looked at and rounds is not clamped
chooseBases_flagignored(w, rounds_in, deterministic, drawn) ==
    IF ~WordLess(WordOf(4), w) THEN <<>>
    ELSE IF rounds_in <= 0
    THEN DropNotBelowWord(DeterministicSetWord(w), w)
    ELSE DrawLoop(<<>>, rounds_in, drawn)

\* chooseBases on the word w; drawn is the sequence of values the generator
\* returns
chooseBases(w, rounds_in, deterministic, drawn) ==
    IF ~WordLess(WordOf(4), w) THEN <<>>
    ELSE IF deterministic \/ rounds_in <= 0
    THEN DropNotBelowWord(DeterministicSetWord(w), w)
    ELSE DrawLoop(<<>>, DrawTarget(WordInt(w), rounds_in), drawn)

\* the squaring loop of isWitness_big, "for (i = 1; i < s; ++i)"
RECURSIVE SquaringLoop(_, _, _, _, _)
SquaringLoop_none(xx, n, n_minus_1, i, s) == TRUE
SquaringLoop(xx, n, n_minus_1, i, s) ==
    IF ~(i < s) THEN TRUE
    ELSE LET x2 == Mod(Mul(xx, xx), n)
         IN  IF x2 = n_minus_1 THEN FALSE
             ELSE SquaringLoop(x2, n, n_minus_1, i + 1, s)

\* isWitness_big
isWitness_big(a, n, s, d) ==
    LET xx == powMod_big(a, d, n)
        n_minus_1 == Sub(n, BigIntFromWord(1))
    IN  IF xx = BigIntFromWord(1) \/ xx = n_minus_1 THEN FALSE
        ELSE SquaringLoop(xx, n, n_minus_1, 1, s)

\* BigInt a(a_val) in the loop over the bases: one limb in the source, where
\* a base is as wide as a limb; the limbs of the same value where the limbs
\* of the model are narrower than a base
BigIntOfBase(a_val) == ToLimbs(a_val)

\* the loop over the bases of isProbablePrime_big
RECURSIVE BasesLoop(_, _, _, _)
BasesLoop(bases, n, s, d) ==
    IF bases = <<>> THEN TRUE
    ELSE LET a == BigIntOfBase(Head(bases))
         IN  IF GreaterEq(a, n) THEN BasesLoop(Tail(bases), n, s, d)
             ELSE IF isWitness_big(a, n, s, d) THEN FALSE
             ELSE BasesLoop(Tail(bases), n, s, d)

\* isProbablePrime_big
isProbablePrime_big(n, rounds_in) ==
    IF Less(n, BigIntFromWord(2)) THEN FALSE
    ELSE IF n = BigIntFromWord(2) \/ n = BigIntFromWord(3) THEN TRUE
    ELSE IF is_even(n) THEN FALSE
    ELSE LET sd == decompose_big(Sub(n, BigIntFromWord(1)))
             bases == chooseBases(to_uint64(n), rounds_in, TRUE, <<>>)
         IN  BasesLoop(bases, n, sd[1], sd[2])

-----------------------------------------------------------------------------
(* Inputs *)

\* the limb values operands are built from: the smallest and the largest
LimbSample == {0, 1, UINT64_MAX - 1, UINT64_MAX}

\* the limb vectors of exactly n limbs over LimbSample
RECURSIVE LimbVectors(_)
LimbVectors(n) ==
    IF n = 0 THEN {<<>>}
    ELSE {Append(v, limb) : v \in LimbVectors(n - 1), limb \in LimbSample}

\* the normalized BigInts of at most maxlen limbs over LimbSample
Operands(maxlen) ==
    {a \in UNION {LimbVectors(n) : n \in 1..maxlen} : IsNormalized(a)}

\* nothing has run yet
Idle ==
    /\ op = "none"
    /\ res = NoResult
    /\ res2 = NoResult
    /\ out = <<>>
    /\ verdict = FALSE
    /\ err = "none"
    /\ loop = <<>>

-----------------------------------------------------------------------------
(* Operations of the arithmetic layer, each applied to the operands x and y *)

Returns(name, first, second) ==
    /\ op' = name
    /\ res' = first
    /\ res2' = second
    /\ err' = "none"

\* mutant: the failing operation leaves values in the result slots
Throws_partial(name, what) ==
    /\ op' = name
    /\ res' = BigIntDefault
    /\ res2' = BigIntDefault
    /\ err' = what

Throws(name, what) ==
    /\ op' = name
    /\ res' = NoResult
    /\ res2' = NoResult
    /\ err' = what

DoAdd ==
    /\ op = "none"
    /\ Returns("add", Add(x, y), NoResult)
    /\ UNCHANGED <<wbits, loop, x, y, z, sh, str, rounds, out, verdict>>

\* mutant: operator- subtracts in place, in the left operand
DoSub_inplace ==
    /\ op = "none"
    /\ IF SubThrows(x, y)
       THEN Throws("sub", "Underflow") /\ x' = x
       ELSE Returns("sub", Sub(x, y), NoResult) /\ x' = Sub(x, y)
    /\ UNCHANGED <<wbits, loop, y, z, sh, str, rounds, out, verdict>>

DoSub ==
    /\ op = "none"
    /\ IF SubThrows(x, y)
       THEN Throws("sub", "Underflow")
       ELSE Returns("sub", Sub(x, y), NoResult)
    /\ UNCHANGED <<wbits, loop, x, y, z, sh, str, rounds, out, verdict>>

DoMul ==
    /\ op = "none"
    /\ Returns("mul", Mul(x, y), NoResult)
    /\ UNCHANGED <<wbits, loop, x, y, z, sh, str, rounds, out, verdict>>

DoDivmod ==
    /\ op = "none"
    /\ IF DivmodThrows(x, y)
       THEN Throws("divmod", "DivideByZero")
       ELSE Returns("divmod", divmod(x, y)[1], divmod(x, y)[2])
    /\ UNCHANGED <<wbits, loop, x, y, z, sh, str, rounds, out, verdict>>

DoDiv ==
    /\ op = "none"
    /\ IF DivmodThrows(x, y)
       THEN Throws("div", "DivideByZero")
       ELSE Returns("div", Div(x, y), NoResult)
    /\ UNCHANGED <<wbits, loop, x, y, z, sh, str, rounds, out, verdict>>

DoMod ==
    /\ op = "none"
    /\ IF DivmodThrows(x, y)
       THEN Throws("mod", "DivideByZero")
       ELSE Returns("mod", Mod(x, y), NoResult)
    /\ UNCHANGED <<wbits, loop, x, y, z, sh, str, rounds, out, verdict>>

-----------------------------------------------------------------------------
(* Arithmetic on every pair of operands *)

InitArith ==
    /\ wbits = LimbBits
    /\ x \in Operands(MaxLimbs)
    /\ y \in Operands(MaxLimbs - 1)
    /\ z = BigIntDefault
    /\ sh = 0
    /\ str = <<>>
    /\ rounds = 0
    /\ Idle

NextArith == DoAdd \/ DoSub \/ DoMul \/ DoDivmod \/ DoDiv \/ DoMod

SpecArith == InitArith /\ [][NextArith]_vars

\* C1. Subtraction inverse: when x >= y, x - y returns d with d + y == x,
\* that is value(d) = value(x) - value(y).
C1_SubInverse ==
    (op = "sub" /\ err = "none") =>
        /\ Add(res, y) = x
        /\ res = ToLimbs(Value(x) - Value(y))

\* C2. Division/modulo reconstruction: for nonzero y, divmod(x, y) returns
\* (q, r) with q * y + r == x and r < y; operator/ returns q, operator% r.
C2_DivmodReconstruct ==
    /\ (op = "divmod" /\ err = "none") =>
          /\ Add(Mul(res, y), res2) = x
          /\ Less(res2, y)
          /\ res = ToLimbs(Value(x) \div Value(y))
          /\ res2 = ToLimbs(Value(x) % Value(y))
    /\ (op = "div" /\ err = "none") => res = ToLimbs(Value(x) \div Value(y))
    /\ (op = "mod" /\ err = "none") => res = ToLimbs(Value(x) % Value(y))

\* C3. Multiplication is exact: value(x * y) = value(x) * value(y).
C3_MulExact ==
    op = "mul" => res = ToLimbs(Value(x) * Value(y))

\* the product spills into a new most-significant limb
C3_Witness ==
    /\ op = "mul"
    /\ Len(x) > 1
    /\ Len(y) > 1
    /\ Len(res) = Len(x) + Len(y)

\* the borrow reaches a limb of y that is UINT64_MAX
C1_Witness ==
    /\ op = "sub"
    /\ err = "none"
    /\ Len(x) > Len(y)
    /\ Len(y) > 1

-----------------------------------------------------------------------------
(* Addition of three operands: x + y, then + z *)

DoAddZ ==
    /\ op = "add"
    /\ Returns("add_z", Add(res, z), NoResult)
    /\ UNCHANGED <<wbits, loop, x, y, z, sh, str, rounds, out, verdict>>

InitAdd ==
    /\ wbits = LimbBits
    /\ x \in Operands(MaxLimbs)
    /\ y \in Operands(MaxLimbs - 1)
    /\ z \in Operands(1)
    /\ sh = 0
    /\ str = <<>>
    /\ rounds = 0
    /\ Idle

NextAdd == DoAdd \/ DoAddZ

SpecAdd == InitAdd /\ [][NextAdd]_vars

\* C7. Addition laws: x + 0 == x, x + y == y + x and
\* (x + y) + z == x + (y + z), whatever the limb counts and carries.
C7_AddLaws ==
    /\ op = "add" =>
          /\ res = Add(y, x)
          /\ (is_zero(y) => res = x)
          /\ Add(x, BigIntFromWord(0)) = x
    /\ op = "add_z" => res = Add(x, Add(y, z))

\* a carry out of the top limb appended a limb, operands of different lengths
C7_Witness ==
    /\ op = "add_z"
    /\ Len(x) > Len(y)
    /\ Len(y) > Len(z)
    /\ Len(res) > Len(x)

-----------------------------------------------------------------------------
(* Shifts of every operand by every count *)

ShiftCounts == 0..(wbits * MaxLimbs + 1)

DoShl ==
    /\ op = "none"
    /\ \E n \in ShiftCounts :
          /\ sh' = n
          /\ Returns("shl", Shl(x, n), NoResult)
    /\ UNCHANGED <<wbits, loop, x, y, z, str, rounds, out, verdict>>

DoShr ==
    /\ op = "none"
    /\ \E n \in ShiftCounts :
          /\ sh' = n
          /\ Returns("shr", Shr(x, n), NoResult)
    /\ UNCHANGED <<wbits, loop, x, y, z, str, rounds, out, verdict>>

\* (x << n) >> n: the right shift applied to the result of the left shift
DoShrBack ==
    /\ op = "shl"
    /\ Returns("shl_shr", Shr(res, sh), NoResult)
    /\ UNCHANGED <<wbits, loop, x, y, z, sh, str, rounds, out, verdict>>

InitShift ==
    /\ wbits = LimbBits
    /\ x \in Operands(MaxLimbs)
    /\ y = BigIntDefault
    /\ z = BigIntDefault
    /\ sh = 0
    /\ str = <<>>
    /\ rounds = 0
    /\ Idle

NextShift == DoShl \/ DoShr \/ DoShrBack

SpecShift == InitShift /\ [][NextShift]_vars

\* C8. Shift consistency: (x << n) >> n == x for every n, x << 0 == x,
\* and x >> n == 0 whenever n >= bit_length(x).
C8_ShiftConsistency ==
    /\ op = "shl_shr" => res = x
    /\ (op = "shl" /\ sh = 0) => res = x
    /\ (op = "shr" /\ sh >= bit_length(x)) => is_zero(res)

\* a shift by whole limbs plus a sub-limb part that carried into a new limb
C8_Witness ==
    /\ op = "shl_shr"
    /\ sh > wbits
    /\ sh % wbits # 0
    /\ Len(x) > 1
    /\ x[Len(x)] = UINT64_MAX

-----------------------------------------------------------------------------
(* Modular exponentiation on every base x, exponent y and modulus z *)

DoPowModBig ==
    /\ op = "none"
    /\ IF DivmodThrows(x, z)
       THEN Throws("powMod_big", "DivideByZero")
       ELSE Returns("powMod_big", powMod_big(x, y, z), NoResult)
    /\ UNCHANGED <<wbits, loop, x, y, z, sh, str, rounds, out, verdict>>

DoModularPow ==
    /\ op = "none"
    /\ IF DivmodThrows(x, z)
       THEN Throws("modular_pow", "DivideByZero")
       ELSE Returns("modular_pow", modular_pow(x, y, z), NoResult)
    /\ UNCHANGED <<wbits, loop, x, y, z, sh, str, rounds, out, verdict>>

DoPowMod ==
    /\ op = "none"
    /\ IF DivmodThrows(x, z)
       THEN Throws("powMod", "DivideByZero")
       ELSE Returns("powMod", powMod(x, y, z), NoResult)
    /\ UNCHANGED <<wbits, loop, x, y, z, sh, str, rounds, out, verdict>>

InitPow ==
    /\ wbits = LimbBits
    /\ x \in Operands(MaxLimbs - 1)
    /\ y \in Operands(MaxLimbs - 1)
    /\ z \in Operands(MaxLimbs - 1)
    /\ sh = 0
    /\ str = <<>>
    /\ rounds = 0
    /\ Idle

NextPow == DoPowModBig \/ DoModularPow \/ DoPowMod

SpecPow == InitPow /\ [][NextPow]_vars

\* b^e mod m on numbers
RECURSIVE ModExp(_, _, _)
ModExp(b, e, m) == IF e = 0 THEN 1 % m ELSE (ModExp(b, e - 1, m) * (b % m)) % m

IsPow == op \in {"powMod_big", "modular_pow", "powMod"} /\ err = "none"

\* C4. Modular exponentiation is correct: for every mod >= 1 the result is
\* base^exp mod mod, a value strictly less than mod.
C4_PowModCorrect ==
    IsPow =>
        /\ res = ToLimbs(ModExp(Value(x), Value(y), Value(z)))
        /\ Less(res, z)

\* C5. Exponent zero: for every nonzero mod, including mod = 1,
\* powmod(base, 0, mod) equals 1 mod mod.
C5_PowModExpZero ==
    (IsPow /\ is_zero(y)) => res = ToLimbs(1 % Value(z))

\* the borrow-free case the source's own test runs: 2^10 mod 1000 with a
\* modulus of more than one limb
C4_Witness ==
    /\ op = "powMod_big"
    /\ err = "none"
    /\ Len(z) > 1
    /\ Len(y) > 1

-----------------------------------------------------------------------------
(* The primality test on every candidate of one limb *)

DoIsProbablePrimeBig ==
    /\ op = "none"
    /\ op' = "isProbablePrime_big"
    /\ verdict' = isProbablePrime_big(x, rounds)
    /\ UNCHANGED <<wbits, loop, x, y, z, sh, str, rounds, res, res2, out, err>>

InitMR ==
    /\ wbits = MRBits
    /\ x \in {BigIntFromWord(v) : v \in 0..UINT64_MAX}
    /\ y = BigIntDefault
    /\ z = BigIntDefault
    /\ sh = 0
    /\ str = <<>>
    /\ rounds \in 0..MaxRounds
    /\ Idle

NextMR == DoIsProbablePrimeBig

SpecMR == InitMR /\ [][NextMR]_vars

\* v is prime
IsPrime(v) == v >= 2 /\ \A k \in 2..(v - 1) : v % k # 0

\* C6. Deterministic Miller-Rabin gives the correct verdict: for every n of
\* one limb, isProbablePrime_big(n, rounds) is true if and only if n is prime.
C6_VerdictCorrect ==
    op = "isProbablePrime_big" => (verdict <=> IsPrime(Value(x)))

\* 59 (0x3B) is reported prime after the bases 2 and 7 were tried
C6_Witness ==
    /\ op = "isProbablePrime_big"
    /\ Value(x) = 59
    /\ verdict = TRUE

-----------------------------------------------------------------------------
(* Hexadecimal text: parsing every text, rendering every operand *)

\* the characters texts are built from: digits, both cases, one invalid
HexAlphabet == {"0", "1", "9", "a", "F", "g"}

\* the texts of exactly n characters over HexAlphabet
RECURSIVE TextsOfLen(_)
TextsOfLen(n) ==
    IF n = 0 THEN {<<>>}
    ELSE {Append(t, c) : t \in TextsOfLen(n - 1), c \in HexAlphabet}

HexTexts(maxlen) == UNION {TextsOfLen(n) : n \in 0..maxlen}

\* the limbs rendered operands are built from: 10 needs padding and a letter
HexOperands ==
    {a \in UNION {LimbVectors(n) : n \in 1..MaxLimbs} : IsNormalized(a)}
        \cup {<<10>>, <<10, 1>>, <<0, 10>>}

\* std::toupper / std::tolower on one character
UpperOf(c) == IF InRun(LowerChars, c) THEN UpperChars[Offset(LowerChars, c) + 1] ELSE c
LowerOf(c) == IF InRun(UpperChars, c) THEN LowerChars[Offset(UpperChars, c) + 1] ELSE c

\* the text with every letter in upper case, and in lower case
RECURSIVE ToUpper(_)
ToUpper(t) ==
    IF t = <<>> THEN <<>> ELSE <<UpperOf(Head(t))>> \o ToUpper(Tail(t))

RECURSIVE ToLower(_)
ToLower(t) ==
    IF t = <<>> THEN <<>> ELSE <<LowerOf(Head(t))>> \o ToLower(Tail(t))

RECURSIVE Zeros(_)
Zeros(k) == IF k = 0 THEN <<>> ELSE <<"0">> \o Zeros(k - 1)

\* BigInt(str)
DoParse ==
    /\ op = "none"
    /\ IF HexThrows(str)
       THEN Throws("parse", "ParseError")
       ELSE Returns("parse", BigIntFromHex(str), NoResult)
    /\ UNCHANGED <<wbits, loop, x, y, z, sh, str, rounds, out, verdict>>

\* BigInt(k zeros followed by str); sh records k
DoParsePadded ==
    /\ op = "none"
    /\ ~HexThrows(str)
    /\ \E k \in 1..MaxPad :
          /\ sh' = k
          /\ Returns("parse_padded", BigIntFromHex(Zeros(k) \o str), NoResult)
    /\ UNCHANGED <<wbits, loop, x, y, z, str, rounds, out, verdict>>

\* BigInt(str in upper case) and BigInt(str in lower case)
DoParseUpper ==
    /\ op = "none"
    /\ ~HexThrows(str)
    /\ Returns("parse_upper", BigIntFromHex(ToUpper(str)), NoResult)
    /\ UNCHANGED <<wbits, loop, x, y, z, sh, str, rounds, out, verdict>>

DoParseLower ==
    /\ op = "none"
    /\ ~HexThrows(str)
    /\ Returns("parse_lower", BigIntFromHex(ToLower(str)), NoResult)
    /\ UNCHANGED <<wbits, loop, x, y, z, sh, str, rounds, out, verdict>>

\* x.to_hex_string()
DoRender ==
    /\ op = "none"
    /\ op' = "render"
    /\ out' = to_hex_string(x)
    /\ UNCHANGED <<wbits, loop, x, y, z, sh, str, rounds, res, res2, verdict, err>>

\* BigInt(x.to_hex_string())
DoParseRendered ==
    /\ op = "render"
    /\ Returns("render_parse", BigIntFromHex(out), NoResult)
    /\ UNCHANGED <<wbits, loop, x, y, z, sh, str, rounds, out, verdict>>

InitHex ==
    /\ wbits = 4 * HexDigitsPerLimb
    /\ \/ x \in HexOperands /\ str = <<>>
       \/ x = BigIntDefault /\ str \in HexTexts(MaxHexLen)
    /\ y = BigIntDefault
    /\ z = BigIntDefault
    /\ sh = 0
    /\ rounds = 0
    /\ Idle

NextHex ==
    \/ DoParse
    \/ DoParsePadded
    \/ DoParseUpper
    \/ DoParseLower
    \/ DoRender
    \/ DoParseRendered

SpecHex == InitHex /\ [][NextHex]_vars

\* the word a text of at most one limb's digits denotes
RECURSIVE HexNumber(_)
HexNumber(t) ==
    IF t = <<>> THEN 0
    ELSE 16 * HexNumber(SubSeq(t, 1, Len(t) - 1)) + HexVal(t[Len(t)])

\* digits "std::hex" prints for a word
RECURSIVE NumHexDigits(_)
NumHexDigits(v) == IF v < 16 THEN 1 ELSE 1 + NumHexDigits(v \div 16)

\* the digits of out that render limbs[i], counted from the low end
LimbText(text, i) ==
    SubSeq(text, Len(text) - i * DigitsPerLimb + 1, Len(text) - (i - 1) * DigitsPerLimb)

\* C9. Hex round-trip: BigInt(x.to_hex_string()) == x; parsing a text, the
\* text with '0' digits prepended and the text with its letter case changed
\* give equal values; rendering prints the top limb unpadded and every lower
\* limb zero-padded to a full limb's digits, in lower case.
C9_HexRoundTrip ==
    /\ op = "render_parse" => res = x
    /\ op \in {"parse_padded", "parse_upper", "parse_lower"} =>
          res = BigIntFromHex(str)
    /\ op = "render" =>
          LET top == x[Len(x)]
              lower == Len(x) - 1
          IN  /\ Len(out) = NumHexDigits(top) + DigitsPerLimb * lower
              /\ HexNumber(SubSeq(out, 1, Len(out) - DigitsPerLimb * lower)) = top
              /\ \A i \in 1..lower : HexNumber(LimbText(out, i)) = x[i]
              /\ \A i \in 1..Len(out) :
                    InRun(DigitChars, out[i]) \/ InRun(LowerChars, out[i])

\* three limbs, the lower ones rendered with leading zeros, parsed back
C9_Witness ==
    /\ op = "render_parse"
    /\ Len(x) = MaxLimbs
    /\ x[1] = 1
    /\ x[2] = 0
    /\ res = x

-----------------------------------------------------------------------------
(* Normalization: constructors and sequences of operations *)

\* the shift counts of this specification: none, inside a limb, whole limbs
NormShiftCounts == {0, 1, wbits - 1, wbits, wbits + 1, wbits * MaxLimbs}

\* BigInt()
DoCtorDefault ==
    /\ op = "none"
    /\ Returns("ctor_default", BigIntDefault, NoResult)
    /\ UNCHANGED <<wbits, loop, x, y, z, sh, str, rounds, out, verdict>>

\* BigInt(uint64_t)
DoCtorWord ==
    /\ op = "none"
    /\ \E n \in LimbSample : Returns("ctor_word", BigIntFromWord(n), NoResult)
    /\ UNCHANGED <<wbits, loop, x, y, z, sh, str, rounds, out, verdict>>

DoShlSample ==
    /\ op = "none"
    /\ \E n \in NormShiftCounts :
          /\ sh' = n
          /\ Returns("shl", Shl(x, n), NoResult)
    /\ UNCHANGED <<wbits, loop, x, y, z, str, rounds, out, verdict>>

DoShrSample ==
    /\ op = "none"
    /\ \E n \in NormShiftCounts :
          /\ sh' = n
          /\ Returns("shr", Shr(x, n), NoResult)
    /\ UNCHANGED <<wbits, loop, x, y, z, str, rounds, out, verdict>>

\* the next operation of a sequence reads the value v the last one returned;
\* sequences go on while the value stays among the operands of Init
Carries(v) == v \in UNION {LimbVectors(n) : n \in 1..(MaxLimbs - 1)}

NextOperation ==
    /\ op' = "none"
    /\ res' = NoResult
    /\ res2' = NoResult
    /\ sh' = 0
    /\ str' = <<>>
    /\ UNCHANGED <<wbits, loop, z, rounds, out, verdict, err>>

\* the value returned becomes the left operand
StoreX ==
    /\ op # "none"
    /\ err = "none"
    /\ Carries(res)
    /\ x' = res
    /\ y' = y
    /\ NextOperation

\* the value returned becomes the right operand
StoreY ==
    /\ op # "none"
    /\ err = "none"
    /\ Carries(res)
    /\ x' = x
    /\ y' = res
    /\ NextOperation

\* the remainder of divmod becomes the left operand
StoreRemainder ==
    /\ op = "divmod"
    /\ err = "none"
    /\ Carries(res2)
    /\ x' = res2
    /\ y' = y
    /\ NextOperation

InitNorm ==
    /\ wbits = 4 * HexDigitsPerLimb
    /\ \/ x \in Operands(MaxLimbs - 1) /\ y \in Operands(MaxLimbs - 1) /\ str = <<>>
       \/ x = BigIntDefault /\ y = BigIntDefault /\ str \in HexTexts(MaxLimbs)
    /\ z = BigIntDefault
    /\ sh = 0
    /\ rounds = 0
    /\ Idle

NextNorm ==
    \/ DoCtorDefault
    \/ DoCtorWord
    \/ DoParse
    \/ DoShlSample
    \/ DoShrSample
    \/ DoAdd
    \/ DoSub
    \/ DoMul
    \/ DoDivmod
    \/ DoDiv
    \/ DoMod
    \/ StoreX
    \/ StoreY
    \/ StoreRemainder

SpecNorm == InitNorm /\ [][NextNorm]_vars

\* C10. Normalization invariant: every value a constructor or an operation
\* (<<, >>, +, -, *, divmod, /, %) returns, after any sequence of them, has at
\* least one limb and a non-zero most significant limb unless it is the single
\* limb [0]; the operands a sequence carries forward are such values too.
C10_Normalized ==
    /\ IsNormalized(x)
    /\ IsNormalized(y)
    /\ (op # "none" /\ err = "none") =>
          /\ IsLimbVector(res)
          /\ IsNormalized(res)
          /\ op = "divmod" => IsLimbVector(res2) /\ IsNormalized(res2)

\* a subtraction whose top limbs cancel returns fewer limbs than its operands
C10_Witness ==
    /\ op = "sub"
    /\ err = "none"
    /\ Len(x) = MaxLimbs - 1
    /\ Len(y) = MaxLimbs - 1
    /\ Len(res) < Len(x)
    /\ IsNormalized(res)

-----------------------------------------------------------------------------
(* Error contracts of the arithmetic layer, checked under SpecArith *)

\* C11. Division by zero: divmod(x, 0), x / 0 and x % 0 fail with the
\* divide-by-zero error and return no quotient or remainder, for every x,
\* zero included; a nonzero divisor never raises it.
C11_DivideByZero ==
    op \in {"divmod", "div", "mod"} =>
        /\ Value(y) = 0 => err = "DivideByZero" /\ res = NoResult /\ res2 = NoResult
        /\ Value(y) # 0 => err = "none"

\* 0 divided by 0 failed
C11_Witness ==
    /\ op = "divmod"
    /\ Value(x) = 0
    /\ Value(y) = 0
    /\ err = "DivideByZero"

\* C12. Subtraction underflow: x - y fails with Underflow and produces no
\* result exactly when x < y; for x >= y it returns a value.
C12_Underflow ==
    op = "sub" =>
        /\ Value(x) < Value(y) => err = "Underflow" /\ res = NoResult
        /\ Value(x) >= Value(y) => err = "none" /\ res # NoResult

\* operands of equal length that differ only in the lowest limb
C12_Witness ==
    /\ op = "sub"
    /\ Len(x) = Len(y)
    /\ Len(x) > 1
    /\ x[Len(x)] = y[Len(y)]
    /\ x[1] < y[1]
    /\ err = "Underflow"

-----------------------------------------------------------------------------
(* Error contract of the hex constructor, checked under SpecHex *)

\* the characters [0-9a-fA-F]
HexCharSet ==
    {"0", "1", "2", "3", "4", "5", "6", "7", "8", "9",
     "a", "b", "c", "d", "e", "f", "A", "B", "C", "D", "E", "F"}

\* C13. Hex parsing errors: BigInt(text) fails with a parse error if and only
\* if the text holds a character outside [0-9a-fA-F], wherever it is; a failed
\* parse yields no value, and the empty text yields the zero value.
C13_ParseError ==
    op = "parse" =>
        /\ err = "ParseError" <=> \E i \in 1..Len(str) : str[i] \notin HexCharSet
        /\ err \in {"none", "ParseError"}
        /\ err = "ParseError" => res = NoResult
        /\ err = "none" => res # NoResult
        /\ str = <<>> => err = "none" /\ res = <<0>>

\* the only invalid character is the first one, the last the loop reaches
C13_Witness ==
    /\ op = "parse"
    /\ Len(str) = MaxHexLen
    /\ str[1] \notin HexCharSet
    /\ \A i \in 2..Len(str) : str[i] \in HexCharSet
    /\ err = "ParseError"

-----------------------------------------------------------------------------
(* Multiplication laws on every triple of operands *)

\* x * BigInt(1)
DoMulOne ==
    /\ op = "none"
    /\ Returns("mul_one", Mul(x, BigIntFromWord(1)), NoResult)
    /\ UNCHANGED <<wbits, loop, x, y, z, sh, str, rounds, out, verdict>>

\* x * BigInt(0)
DoMulZero ==
    /\ op = "none"
    /\ Returns("mul_zero", Mul(x, BigIntFromWord(0)), NoResult)
    /\ UNCHANGED <<wbits, loop, x, y, z, sh, str, rounds, out, verdict>>

\* x * (y + z) and x * y + x * z
DoDistribute ==
    /\ op = "none"
    /\ Returns("distribute", Mul(x, Add(y, z)), Add(Mul(x, y), Mul(x, z)))
    /\ UNCHANGED <<wbits, loop, x, y, z, sh, str, rounds, out, verdict>>

\* (x * x) * x and x * (x * x)
DoCube ==
    /\ op = "none"
    /\ Returns("cube", Mul(Mul(x, x), x), Mul(x, Mul(x, x)))
    /\ UNCHANGED <<wbits, loop, x, y, z, sh, str, rounds, out, verdict>>

InitMul ==
    /\ wbits = LimbBits
    /\ x \in Operands(MaxLimbs - 1)
    /\ y \in Operands(MaxLimbs - 1)
    /\ z \in Operands(1)
    /\ sh = 0
    /\ str = <<>>
    /\ rounds = 0
    /\ Idle

NextMul == DoMulOne \/ DoMulZero \/ DoDistribute \/ DoCube

SpecMul == InitMul /\ [][NextMul]_vars

\* C14. Multiplication laws: x * 1 == x, x * 0 == 0,
\* x * (y + z) == x*y + x*z and (x*x)*x == x*(x*x).
C14_MulLaws ==
    /\ op = "mul_one" => res = x
    /\ op = "mul_zero" => res = <<0>>
    /\ op = "distribute" =>
          res = res2 /\ res = ToLimbs(Value(x) * (Value(y) + Value(z)))
    /\ op = "cube" =>
          res = res2 /\ res = ToLimbs(Value(x) * Value(x) * Value(x))

\* y + z carries into a new limb and the products have more limbs than x
C14_Witness ==
    /\ op = "distribute"
    /\ Len(x) = MaxLimbs - 1
    /\ Len(Add(y, z)) > Len(y)
    /\ Len(res) > Len(x) + 1
    /\ res = res2

-----------------------------------------------------------------------------
(* RSA private-exponent driver on unsigned BigInt *)

\* the loop of bezout(const BigInt&, const BigInt&, BigInt&, BigInt&) over
\* st = <<m0, n0, x0, y0, x1, y1>>: <<thrown, m0, x0, y0>>
RECURSIVE BezoutLoop(_)
BezoutLoop(st) ==
    IF ~Neq(st[2], BigIntFromWord(0)) THEN <<FALSE, st[1], st[3], st[4]>>
    ELSE LET q == Div(st[1], st[2])
             r == Mod(st[1], st[2])
             qx1 == Mul(q, st[5])
             qy1 == Mul(q, st[6])
         IN  IF SubThrows(st[3], qx1) \/ SubThrows(st[4], qy1)
             THEN <<TRUE, NoResult, NoResult, NoResult>>
             ELSE BezoutLoop(<<st[2], r, st[5], st[6],
                               Sub(st[3], qx1), Sub(st[4], qy1)>>)

\* bezout on BigInt: <<thrown, gcd, x, y>>
bezout(a, b) ==
    BezoutLoop(<<a, b, BigIntFromWord(1), BigIntFromWord(0),
                 BigIntFromWord(0), BigIntFromWord(1)>>)

\* std::string(result.rbegin(), result.rend())
RECURSIVE Reverse(_)
Reverse(t) == IF t = <<>> THEN <<>> ELSE Append(Reverse(Tail(t)), Head(t))

\* the text the driver writes when gcd != 1
MinusOne == <<"-", "1">>

\* main of the driver from the parsed p, q, e (x, y, z) to the line written:
\* res is the d rendered, res2 the gcd
DoRsaDriver ==
    /\ op = "none"
    /\ LET one == BigIntFromWord(1)
           phi == Mul(Sub(x, one), Sub(y, one))
           b == bezout(z, phi)
           d == Mod(Add(Mod(b[3], phi), phi), phi)
       IN  IF SubThrows(x, one) \/ SubThrows(y, one) \/ b[1]
           THEN Throws("rsa", "Underflow") /\ out' = out
           ELSE IF Neq(b[2], BigIntFromWord(1))
                THEN Returns("rsa", NoResult, b[2]) /\ out' = MinusOne
                ELSE Returns("rsa", d, b[2]) /\ out' = Reverse(to_hex_string(d))
    /\ UNCHANGED <<wbits, loop, x, y, z, sh, str, rounds, verdict>>

InitRsa ==
    /\ wbits = 4 * HexDigitsPerLimb
    /\ x \in {ToLimbs(v) : v \in 2..MaxP}
    /\ y \in {ToLimbs(v) : v \in 2..MaxP}
    /\ z \in {ToLimbs(v) : v \in 0..MaxE}
    /\ sh = 0
    /\ str = <<>>
    /\ rounds = 0
    /\ Idle

NextRsa == DoRsaDriver

SpecRsa == InitRsa /\ [][NextRsa]_vars

RECURSIVE Gcd(_, _)
Gcd(a, b) == IF b = 0 THEN a ELSE Gcd(b, a % b)

\* phi = (p - 1)(q - 1) of the driver's inputs
PhiOf(p, q) == (Value(p) - 1) * (Value(q) - 1)

\* C15. RSA private-exponent driver: for p >= 2, q >= 2 and e, with
\* phi = (p-1)(q-1), the driver completes without a subtraction Underflow and
\* writes d with 0 <= d < phi and e*d mod phi == 1 when gcd(e, phi) == 1, and
\* writes -1 when gcd(e, phi) != 1.
C15_RsaDriver ==
    op = "rsa" =>
        LET phi == PhiOf(x, y)
            e == Value(z)
        IN  /\ err = "none"
            /\ Gcd(e, phi) # 1 => out = MinusOne
            /\ Gcd(e, phi) = 1 =>
                  /\ out = Reverse(to_hex_string(res))
                  /\ Value(res) >= 0
                  /\ Value(res) < phi
                  /\ (e * Value(res)) % phi = 1 % phi

-----------------------------------------------------------------------------
(* Signed wrapper: a sign and an unsigned magnitude, <<negative, magnitude>>; *)
(* every operation splits on the signs and delegates the magnitudes to the    *)
(* unsigned BigInt; zero is never negative                                    *)

SignedBigInt(negative, magnitude) == <<negative /\ ~is_zero(magnitude), magnitude>>

IsNegative(s) == s[1]
Magnitude(s) == s[2]

SignedNeq(a, b) == IsNegative(a) # IsNegative(b) \/ Neq(Magnitude(a), Magnitude(b))

SignedNegate(a) == SignedBigInt(~IsNegative(a), Magnitude(a))

SignedAdd(a, b) ==
    IF IsNegative(a) = IsNegative(b)
    THEN SignedBigInt(IsNegative(a), Add(Magnitude(a), Magnitude(b)))
    ELSE IF GreaterEq(Magnitude(a), Magnitude(b))
         THEN SignedBigInt(IsNegative(a), Sub(Magnitude(a), Magnitude(b)))
         ELSE SignedBigInt(IsNegative(b), Sub(Magnitude(b), Magnitude(a)))

SignedSub(a, b) == SignedAdd(a, SignedNegate(b))

SignedMul(a, b) ==
    SignedBigInt(IsNegative(a) # IsNegative(b), Mul(Magnitude(a), Magnitude(b)))

\* quotient towards zero, remainder with the sign of the dividend
SignedDiv(a, b) ==
    SignedBigInt(IsNegative(a) # IsNegative(b), Div(Magnitude(a), Magnitude(b)))

SignedMod(a, b) == SignedBigInt(IsNegative(a), Mod(Magnitude(a), Magnitude(b)))

-----------------------------------------------------------------------------
(* bezout on SignedBigInt, one loop iteration per step;                      *)
(* loop = <<m0, n0, x0, y0, x1, y1>>                                          *)

\* the body of the while loop
BezoutBody(st) ==
    LET q == SignedDiv(st[1], st[2])
        r == SignedMod(st[1], st[2])
        xr == SignedSub(st[3], SignedMul(q, st[5]))
        yr == SignedSub(st[4], SignedMul(q, st[6]))
    IN  <<st[2], r, st[5], st[6], xr, yr>>

\* the statements before the loop, a = x and b = y
BezoutStart ==
    /\ op = "none"
    /\ op' = "bezout"
    /\ loop' = <<SignedBigInt(FALSE, x), SignedBigInt(FALSE, y),
                 SignedBigInt(FALSE, BigIntFromWord(1)),
                 SignedBigInt(FALSE, BigIntFromWord(0)),
                 SignedBigInt(FALSE, BigIntFromWord(0)),
                 SignedBigInt(FALSE, BigIntFromWord(1))>>
    /\ UNCHANGED <<wbits, x, y, z, sh, str, rounds, res, res2, out, verdict, err>>

\* one iteration: n0 != 0
BezoutStep ==
    /\ op = "bezout"
    /\ SignedNeq(loop[2], SignedBigInt(FALSE, BigIntFromWord(0)))
    /\ loop' = BezoutBody(loop)
    /\ UNCHANGED <<wbits, x, y, z, sh, str, rounds, op, res, res2, out, verdict, err>>

\* n0 == 0: x = x0, y = y0, return m0; res is the gcd, res2 is <<x, y>>
BezoutReturn ==
    /\ op = "bezout"
    /\ ~SignedNeq(loop[2], SignedBigInt(FALSE, BigIntFromWord(0)))
    /\ op' = "bezout_done"
    /\ res' = loop[1]
    /\ res2' = <<loop[3], loop[4]>>
    /\ loop' = <<>>
    /\ UNCHANGED <<wbits, x, y, z, sh, str, rounds, out, verdict, err>>

InitBezout ==
    /\ wbits = LimbBits
    /\ x \in Operands(MaxLimbs)
    /\ y \in Operands(MaxLimbs - 1)
    /\ z = BigIntDefault
    /\ sh = 0
    /\ str = <<>>
    /\ rounds = 0
    /\ Idle

NextBezout == BezoutStart \/ BezoutStep \/ BezoutReturn

SpecBezout == InitBezout /\ [][NextBezout]_vars

\* the integer a signed value denotes
SignedValue(s) == IF IsNegative(s) THEN 0 - Value(Magnitude(s)) ELSE Value(Magnitude(s))

\* C16. Bezout identity: for non-negative a and b, bezout returns
\* g = gcd(a, b) with a*x + b*y == g; at every iteration the loop keeps
\* a*x0 + b*y0 == m0 and a*x1 + b*y1 == n0; it terminates because n0
\* decreases at every iteration after the first.
C16_LoopInvariant ==
    /\ op = "bezout" =>
          /\ Value(x) * SignedValue(loop[3]) + Value(y) * SignedValue(loop[4])
                = SignedValue(loop[1])
          /\ Value(x) * SignedValue(loop[5]) + Value(y) * SignedValue(loop[6])
                = SignedValue(loop[2])
          /\ SignedValue(loop[1]) >= 0
          /\ SignedValue(loop[2]) >= 0
          /\ Gcd(SignedValue(loop[1]), SignedValue(loop[2])) = Gcd(Value(x), Value(y))
          /\ (loop[1] # SignedBigInt(FALSE, x) => SignedValue(loop[2]) < SignedValue(loop[1]))
    /\ op = "bezout_done" =>
          /\ SignedValue(res) = Gcd(Value(x), Value(y))
          /\ Value(x) * SignedValue(res2[1]) + Value(y) * SignedValue(res2[2])
                = SignedValue(res)

-----------------------------------------------------------------------------
(* Comparison operators applied to x and y *)

Compares(name, result) ==
    /\ op' = name
    /\ verdict' = result
    /\ UNCHANGED <<wbits, loop, x, y, z, sh, str, rounds, res, res2, out, err>>

DoEq ==
    /\ op = "none"
    /\ Compares("eq", Eq(x, y))

DoNeq ==
    /\ op = "none"
    /\ Compares("neq", Neq(x, y))

DoLess ==
    /\ op = "none"
    /\ Compares("lt", Less(x, y))

DoGreater ==
    /\ op = "none"
    /\ Compares("gt", Greater(x, y))

DoLessEq ==
    /\ op = "none"
    /\ Compares("le", LessEq(x, y))

DoGreaterEq ==
    /\ op = "none"
    /\ Compares("ge", GreaterEq(x, y))

-----------------------------------------------------------------------------
(* Every operation of the engine on the same operands *)

InitFrame ==
    /\ wbits = MRBits
    /\ x \in Operands(1)
    /\ y \in Operands(MaxLimbs - 1)
    /\ z \in Operands(1)
    /\ sh = 0
    /\ str = <<>>
    /\ rounds \in 0..MaxRounds
    /\ Idle

NextFrame ==
    \/ DoEq
    \/ DoNeq
    \/ DoLess
    \/ DoGreater
    \/ DoLessEq
    \/ DoGreaterEq
    \/ DoShlSample
    \/ DoShrSample
    \/ DoAdd
    \/ DoSub
    \/ DoMul
    \/ DoDivmod
    \/ DoDiv
    \/ DoMod
    \/ DoPowModBig
    \/ DoModularPow
    \/ DoPowMod
    \/ DoIsProbablePrimeBig

SpecFrame == InitFrame /\ [][NextFrame]_vars

\* C17. Operands are never modified: every operation (comparison, <<, >>, +,
\* -, *, divmod, /, %, powmod, primality test) leaves the values passed to it
\* unchanged, both when it returns and when it fails with Underflow or
\* DivideByZero.
C17_OperandsUnchanged ==
    [][x' = x /\ y' = y /\ z' = z /\ rounds' = rounds]_vars

\* a failed subtraction and its operands
C17_Witness ==
    /\ op = "sub"
    /\ err = "Underflow"
    /\ Len(y) > 1
    /\ Less(x, y)

-----------------------------------------------------------------------------
(* random_bigint_in_range(min, max) with min = y and max = x, one draw per   *)
(* step; loop = <<range, bits, num_limbs, rnd>>                               *)

\* every limb vector of n limbs gen() can fill
RECURSIVE GenLimbs(_)
GenLimbs(n) ==
    IF n = 0 THEN {<<>>}
    ELSE {Append(v, limb) : v \in GenLimbs(n - 1), limb \in 0..UINT64_MAX}

\* the mask of the most significant limb for bits_in_msl > 0
MslMask(bits_in_msl) ==
    IF bits_in_msl = wbits - 1 THEN Wrap(Wrap(Pow2(wbits - 1) - 1) + Pow2(wbits - 1))
    ELSE Wrap(Pow2(bits_in_msl) - 1)

\* the body of the do-loop for the limbs gen() returned: rnd
MaskDraw(limbs, bits) ==
    LET bits_in_msl == bits % wbits
    IN  IF bits_in_msl > 0
        THEN normalize([limbs EXCEPT ![Len(limbs)] = BitAnd(limbs[Len(limbs)],
                                                            MslMask(bits_in_msl))])
        ELSE normalize(limbs)

\* range, bits and num_limbs; "if (range <= BigInt(0)) return min" first
SampleStart ==
    /\ op = "none"
    /\ LET range == Add(Sub(x, y), BigIntFromWord(1))
           bits == bit_length(range)
           n == (bits + (wbits - 1)) \div wbits
           num_limbs == IF n = 0 THEN 1 ELSE n
       IN  IF SubThrows(x, y)
           THEN Throws("sample_done", "Underflow") /\ loop' = loop
           ELSE IF LessEq(range, BigIntFromWord(0))
                THEN Returns("sample_done", y, NoResult) /\ loop' = loop
                ELSE /\ op' = "sample"
                     /\ loop' = <<range, bits, num_limbs, BigIntDefault>>
                     /\ UNCHANGED <<res, res2, err>>
    /\ UNCHANGED <<wbits, x, y, z, sh, str, rounds, out, verdict>>

\* a draw that is rejected: rnd >= range, the loop runs again
SampleRetry ==
    /\ op = "sample"
    /\ \E limbs \in GenLimbs(loop[3]) :
          LET rnd == MaskDraw(limbs, loop[2])
          IN  /\ GreaterEq(rnd, loop[1])
              /\ loop' = [loop EXCEPT ![4] = rnd]
    /\ UNCHANGED <<wbits, x, y, z, sh, str, rounds, op, res, res2, out, verdict, err>>

\* a draw that is accepted: return rnd + min; res2 keeps rnd
SampleAccept ==
    /\ op = "sample"
    /\ \E limbs \in GenLimbs(loop[3]) :
          LET rnd == MaskDraw(limbs, loop[2])
          IN  /\ ~GreaterEq(rnd, loop[1])
              /\ Returns("sample_done", Add(rnd, y), rnd)
    /\ loop' = <<>>
    /\ UNCHANGED <<wbits, x, y, z, sh, str, rounds, out, verdict>>

InitSample ==
    /\ wbits = LimbBits
    /\ x \in Operands(MaxLimbs)
    /\ y \in Operands(MaxLimbs - 1)
    /\ Value(y) <= Value(x)
    /\ z = BigIntDefault
    /\ sh = 0
    /\ str = <<>>
    /\ rounds = 0
    /\ Idle

NextSample == SampleStart \/ SampleRetry \/ SampleAccept

SpecSample == InitSample /\ [][NextSample]_vars

\* the values the loop can return from the state it is in
Returnable ==
    {Value(Add(MaskDraw(limbs, loop[2]), y)) :
        limbs \in {l \in GenLimbs(loop[3]) : ~GreaterEq(MaskDraw(l, loop[2]), loop[1])}}

\* C18. Range sampler: for min <= max, whatever limbs the generator
\* produces, the value returned satisfies min <= result <= max; a draw is
\* accepted only when, masked, it is strictly less than max - min + 1; and
\* every value of [min, max] can be returned.
C18_RangeSampler ==
    /\ op = "sample_done" =>
          /\ err = "none"
          /\ Value(y) <= Value(res)
          /\ Value(res) <= Value(x)
          /\ Value(res2) < Value(x) - Value(y) + 1
    /\ op = "sample" => Returnable = Value(y)..Value(x)

-----------------------------------------------------------------------------
(* chooseBases(n, rounds, false) with n the word of x, one draw per step;    *)
(* loop = <<bases, rounds>> with rounds already clamped                       *)

\* up to the while loop; n <= 4 and rounds <= 0 return without drawing
ChooseStart ==
    /\ op = "none"
    /\ LET n == x[1]
       IN  IF n <= 4 \/ rounds <= 0
           THEN Returns("chooseBases_done",
                        chooseBases(WordOf(n), rounds, FALSE, <<>>), NoResult)
                /\ loop' = loop
           ELSE /\ op' = "chooseBases"
                /\ loop' = <<<<>>, DrawTarget(n, rounds)>>
                /\ UNCHANGED <<res, res2, err>>
    /\ UNCHANGED <<wbits, x, y, z, sh, str, rounds, out, verdict>>

\* one iteration: a = dist(rng) in [2, n - 2], pushed unless already drawn
ChooseDraw ==
    /\ op = "chooseBases"
    /\ Len(loop[1]) < loop[2]
    /\ \E a \in 2..(x[1] - 2) :
          loop' = IF Found(loop[1], a) THEN loop
                  ELSE <<Append(loop[1], a), loop[2]>>
    /\ UNCHANGED <<wbits, x, y, z, sh, str, rounds, op, res, res2, out, verdict, err>>

\* the loop condition fails: return bases
ChooseReturn ==
    /\ op = "chooseBases"
    /\ ~(Len(loop[1]) < loop[2])
    /\ Returns("chooseBases_done", loop[1], NoResult)
    /\ loop' = <<>>
    /\ UNCHANGED <<wbits, x, y, z, sh, str, rounds, out, verdict>>

InitChoose ==
    /\ wbits = MRBits
    /\ x \in {BigIntFromWord(n) : n \in 5..MaxBaseN}
    /\ y = BigIntDefault
    /\ z = BigIntDefault
    /\ sh = 0
    /\ str = <<>>
    /\ rounds \in 1..MaxDrawRounds
    /\ Idle

NextChoose == ChooseStart \/ ChooseDraw \/ ChooseReturn

SpecChoose == InitChoose /\ [][NextChoose]_vars

\* pairwise distinct, each within [2, n - 2]
DistinctBases(bases, n) ==
    /\ \A i \in 1..Len(bases) : bases[i] >= 2 /\ bases[i] <= n - 2
    /\ \A i, j \in 1..Len(bases) : i # j => bases[i] # bases[j]

\* C19. Probabilistic base selection: for n > 4 and k >= 1,
\* chooseBases(n, k, false) returns pairwise-distinct bases within [2, n-2],
\* exactly k of them when k <= n - 3 and n - 3 of them when k is larger; the
\* drawing loop never holds more than that many and returns when it has them.
C19_DistinctBases ==
    LET n == Value(x)
        want == IF rounds <= n - 3 THEN rounds ELSE n - 3
    IN  /\ op = "chooseBases" =>
              /\ DistinctBases(loop[1], n)
              /\ Len(loop[1]) <= want
              /\ loop[2] = want
        /\ op = "chooseBases_done" =>
              /\ DistinctBases(res, n)
              /\ Len(res) = want

\* more rounds asked for than there are bases: all n - 3 bases are returned
C19_Witness ==
    /\ op = "chooseBases_done"
    /\ rounds > Value(x) - 3
    /\ Len(res) = Value(x) - 3
    /\ Len(res) > 1

\* ---------------------------------------------------------------------------
\* Ordering of two BigInts
\* ---------------------------------------------------------------------------

InitOrder ==
    /\ wbits = LimbBits
    /\ x \in Operands(MaxLimbs)
    /\ y \in Operands(MaxLimbs)
    /\ z = BigIntDefault
    /\ sh = 0
    /\ str = <<>>
    /\ rounds = 0
    /\ Idle

NextOrder ==
    \/ DoEq
    \/ DoNeq
    \/ DoLess
    \/ DoGreater
    \/ DoLessEq
    \/ DoGreaterEq

SpecOrder == InitOrder /\ [][NextOrder]_vars

\* how many of a < b, a == b, a > b hold
OrderCount(a, b) ==
    (IF Less(a, b) THEN 1 ELSE 0) + (IF Eq(a, b) THEN 1 ELSE 0)
        + (IF Greater(a, b) THEN 1 ELSE 0)

\* C20. Ordering agrees with numeric value: for normalized a and b, a < b
\* iff value(a) < value(b), a == b iff value(a) = value(b), exactly one of
\* a < b, a == b, a > b holds, and <= and >= are the negations of > and <.
C20_Ordering ==
    /\ op = "lt" => verdict = (Value(x) < Value(y))
    /\ op = "eq" => verdict = (Value(x) = Value(y))
    /\ op = "neq" => verdict = (Value(x) # Value(y))
    /\ op = "gt" => verdict = (Value(x) > Value(y))
    /\ op = "le" => verdict = ~Greater(x, y) /\ verdict = (Value(x) <= Value(y))
    /\ op = "ge" => verdict = ~Less(x, y) /\ verdict = (Value(x) >= Value(y))
    /\ op \in {"lt", "eq", "neq", "gt", "le", "ge"} => OrderCount(x, y) = 1

\* same length, the low limbs ordered one way and the top limbs the other
C20_Witness ==
    /\ op = "lt"
    /\ verdict
    /\ Len(x) = MaxLimbs
    /\ Len(y) = MaxLimbs
    /\ x[1] > y[1]
    /\ x[MaxLimbs] < y[MaxLimbs]

-----------------------------------------------------------------------------
(* Values of the shifts *)

\* C21. Shift values: for every x and bit count n, value(x << n) =
\* value(x) * 2^n and value(x >> n) = floor(value(x) / 2^n), for whole-limb
\* counts, counts whose sub-limb part carries into a new top limb, and
\* counts that drop every limb.
C21_ShiftValues ==
    /\ op = "shl" => Value(res) = Value(x) * Pow2(sh)
    /\ op = "shr" => Value(res) = Value(x) \div Pow2(sh)

\* a left shift by whole limbs and a sub-limb part that made a new top limb
C21_Witness ==
    /\ op = "shl"
    /\ sh > wbits
    /\ sh % wbits # 0
    /\ Len(res) = Len(x) + sh \div wbits + 1

-----------------------------------------------------------------------------
(* divmod, one loop iteration at a time.  loop = <<phase, quotient,
   remainder, temp_divisor, power_of_two, doublings, walks>>, where doublings
   and walks count the iterations of the doubling and the walk-down loop *)

\* divmod up to the doubling loop
DivStart ==
    /\ op = "none"
    /\ IF DivmodThrows(x, y)
       THEN Throws("divsteps_done", "DivideByZero") /\ loop' = loop
       ELSE IF Less(x, y)
            THEN Returns("divsteps_done", BigIntFromWord(0), x) /\ loop' = loop
            ELSE /\ op' = "divsteps"
                 /\ loop' = <<"double", BigIntFromWord(0), BigIntFromWord(0),
                              y, BigIntFromWord(1), 0, 0>>
                 /\ UNCHANGED <<res, res2, err>>
    /\ UNCHANGED <<wbits, x, y, z, sh, str, rounds, out, verdict>>

\* one iteration of while (temp_divisor <= dividend)
DivDoubleStep ==
    /\ op = "divsteps"
    /\ loop[1] = "double"
    /\ LessEq(loop[4], x)
    /\ loop' = [loop EXCEPT ![4] = Shl(loop[4], 1), ![5] = Shl(loop[5], 1),
                            ![6] = loop[6] + 1]
    /\ UNCHANGED <<wbits, x, y, z, sh, str, rounds, op, res, res2, out, verdict, err>>

\* the doubling loop exits: one step back, remainder = dividend
DivStepBack ==
    /\ op = "divsteps"
    /\ loop[1] = "double"
    /\ ~LessEq(loop[4], x)
    /\ loop' = [loop EXCEPT ![1] = "walk", ![3] = x, ![4] = Shr(loop[4], 1),
                            ![5] = Shr(loop[5], 1)]
    /\ UNCHANGED <<wbits, x, y, z, sh, str, rounds, op, res, res2, out, verdict, err>>

\* mutant: the walk-down loop does not halve power_of_two
DivWalkStep_stuck ==
    /\ op = "divsteps"
    /\ loop[1] = "walk"
    /\ ~is_zero(loop[5])
    /\ loop[7] < 4 * MaxLimbs * LimbBits
    /\ loop' = [loop EXCEPT ![2] = IF GreaterEq(loop[3], loop[4])
                                   THEN Add(loop[2], loop[5]) ELSE loop[2],
                            ![3] = IF GreaterEq(loop[3], loop[4])
                                   THEN Sub(loop[3], loop[4]) ELSE loop[3],
                            ![7] = loop[7] + 1]
    /\ UNCHANGED <<wbits, x, y, z, sh, str, rounds, op, res, res2, out, verdict, err>>

\* one iteration of while (!power_of_two.is_zero())
DivWalkStep ==
    /\ op = "divsteps"
    /\ loop[1] = "walk"
    /\ ~is_zero(loop[5])
    /\ loop' = [loop EXCEPT ![2] = IF GreaterEq(loop[3], loop[4])
                                   THEN Add(loop[2], loop[5]) ELSE loop[2],
                            ![3] = IF GreaterEq(loop[3], loop[4])
                                   THEN Sub(loop[3], loop[4]) ELSE loop[3],
                            ![4] = Shr(loop[4], 1),
                            ![5] = Shr(loop[5], 1),
                            ![7] = loop[7] + 1]
    /\ UNCHANGED <<wbits, x, y, z, sh, str, rounds, op, res, res2, out, verdict, err>>

\* the walk-down loop exits: normalize and return
DivReturn ==
    /\ op = "divsteps"
    /\ loop[1] = "walk"
    /\ is_zero(loop[5])
    /\ Returns("divsteps_done", normalize(loop[2]), normalize(loop[3]))
    /\ loop' = <<>>
    /\ UNCHANGED <<wbits, x, y, z, sh, str, rounds, out, verdict>>

InitDivSteps ==
    /\ wbits = LimbBits
    /\ x \in Operands(MaxLimbs)
    /\ y \in Operands(MaxLimbs - 1)
    /\ z = BigIntDefault
    /\ sh = 0
    /\ str = <<>>
    /\ rounds = 0
    /\ Idle

NextDivSteps == DivStart \/ DivDoubleStep \/ DivStepBack \/ DivWalkStep \/ DivReturn

SpecDivSteps == InitDivSteps /\ [][NextDivSteps]_vars

\* C22. Binary long division steps: a dividend below the divisor returns
\* (0, dividend); after the doubling loop and the step back, temp_divisor =
\* divisor * 2^k and power_of_two = 2^k with divisor * 2^k <= dividend <
\* divisor * 2^(k+1); and at every iteration of the walk-down loop
\* temp_divisor = divisor * power_of_two, dividend = quotient * divisor +
\* remainder, and remainder < 2 * temp_divisor.
C22_DivisionSteps ==
    /\ (op = "divsteps_done" /\ err = "none" /\ Value(x) < Value(y)) =>
           (is_zero(res) /\ res2 = x)
    /\ (op = "divsteps" /\ loop[1] = "walk" /\ is_zero(loop[2])) =>
           /\ Value(loop[5]) = Pow2(loop[6] - 1)
           /\ Value(loop[4]) = Value(y) * Pow2(loop[6] - 1)
           /\ Value(loop[4]) <= Value(x)
           /\ Value(x) < 2 * Value(loop[4])
    /\ (op = "divsteps" /\ loop[1] = "walk" /\ ~is_zero(loop[5])) =>
           /\ Value(loop[4]) = Value(y) * Value(loop[5])
           /\ Value(x) = Value(loop[2]) * Value(y) + Value(loop[3])
           /\ Value(loop[3]) < 2 * Value(loop[4])

-----------------------------------------------------------------------------
(* The witness test and the loop over the bases, one base at a time.
   z = 0 runs isProbablePrime_big on x; any other z runs isWitness_big on the
   base z.  loop = <<bases still to test, s, d>>, out = the bases tested *)

\* isWitness_big(z, x, s, d) with (s, d) = decompose_big(x - 1)
DoIsWitness ==
    /\ op = "none"
    /\ ~is_zero(z)
    /\ LET sd == decompose_big(Sub(x, BigIntFromWord(1)))
       IN  verdict' = isWitness_big(z, x, sd[1], sd[2])
    /\ op' = "isWitness_big"
    /\ UNCHANGED <<wbits, loop, x, y, z, sh, str, rounds, res, res2, out, err>>

\* isProbablePrime_big up to the loop over the bases
PrimeStart ==
    /\ op = "none"
    /\ is_zero(z)
    /\ IF Less(x, BigIntFromWord(2))
       THEN op' = "prime_done" /\ verdict' = FALSE /\ loop' = loop
       ELSE IF x = BigIntFromWord(2) \/ x = BigIntFromWord(3)
       THEN op' = "prime_done" /\ verdict' = TRUE /\ loop' = loop
       ELSE IF is_even(x)
       THEN op' = "prime_done" /\ verdict' = FALSE /\ loop' = loop
       ELSE LET sd == decompose_big(Sub(x, BigIntFromWord(1)))
                bases == chooseBases(to_uint64(x), rounds, TRUE, <<>>)
            IN  /\ op' = "prime"
                /\ loop' = <<bases, sd[1], sd[2]>>
                /\ verdict' = verdict
    /\ UNCHANGED <<wbits, x, y, z, sh, str, rounds, res, res2, out, err>>

\* one iteration of for (uint64_t a_val : bases)
PrimeBase ==
    /\ op = "prime"
    /\ loop[1] # <<>>
    /\ LET a == BigIntOfBase(Head(loop[1]))
       IN  IF GreaterEq(a, x)
           THEN /\ loop' = [loop EXCEPT ![1] = Tail(loop[1])]
                /\ UNCHANGED <<op, verdict, out>>
           ELSE IF isWitness_big(a, x, loop[2], loop[3])
           THEN /\ op' = "prime_done"
                /\ verdict' = FALSE
                /\ out' = Append(out, Head(loop[1]))
                /\ loop' = <<>>
           ELSE /\ loop' = [loop EXCEPT ![1] = Tail(loop[1])]
                /\ out' = Append(out, Head(loop[1]))
                /\ UNCHANGED <<op, verdict>>
    /\ UNCHANGED <<wbits, x, y, z, sh, str, rounds, res, res2, err>>

\* the bases are used up: probably prime
PrimeReturn ==
    /\ op = "prime"
    /\ loop[1] = <<>>
    /\ op' = "prime_done"
    /\ verdict' = TRUE
    /\ loop' = <<>>
    /\ UNCHANGED <<wbits, x, y, z, sh, str, rounds, res, res2, out, err>>

\* candidates of one limb for the whole test, and odd candidates above 3 of
\* up to MaxLimbs - 1 narrow limbs with every base in [2, n - 2] for the
\* witness test
InitWitness ==
    /\ \/ /\ wbits = MRBits
          /\ x \in {BigIntFromWord(v) : v \in 0..UINT64_MAX}
          /\ z = BigIntFromWord(0)
       \/ /\ wbits = LimbBits
          /\ x \in {n \in Operands(MaxLimbs - 1) : Value(n) > 3 /\ ~is_even(n)}
          /\ z \in {ToLimbs(a) : a \in 2..(Value(x) - 2)}
    /\ y = BigIntDefault
    /\ sh = 0
    /\ str = <<>>
    /\ rounds \in 0..MaxRounds
    /\ Idle

NextWitness == DoIsWitness \/ PrimeStart \/ PrimeBase \/ PrimeReturn

SpecWitness == InitWitness /\ [][NextWitness]_vars

\* b^e mod m by squaring
RECURSIVE ModExpFast(_, _, _)
ModExpFast(b, e, m) ==
    IF e = 0 THEN 1 % m
    ELSE LET h == ModExpFast(b, e \div 2, m)
             hh == (h * h) % m
         IN  IF e % 2 = 0 THEN hh ELSE (hh * (b % m)) % m

\* the odd part d and the exponent s of v = d * 2^s
RECURSIVE OddPart(_)
OddPart(v) == IF v % 2 = 0 THEN OddPart(v \div 2) ELSE v
RECURSIVE TwoExponent(_)
TwoExponent(v) == IF v % 2 = 0 THEN 1 + TwoExponent(v \div 2) ELSE 0

\* a is a witness of the compositeness of the odd number n
WitnessOf(a, n) ==
    LET d == OddPart(n - 1)
        s == TwoExponent(n - 1)
    IN  /\ ModExpFast(a, d, n) # 1
        /\ \A r \in 0..(s - 1) : ModExpFast(a, d * Pow2(r), n) # n - 1

\* the bases the deterministic selection hands to a candidate below 2^32
RECURSIVE BasesBelow(_, _)
BasesBelow(bases, n) ==
    IF bases = <<>> THEN <<>>
    ELSE IF Head(bases) < n THEN <<Head(bases)>> \o BasesBelow(Tail(bases), n)
    ELSE BasesBelow(Tail(bases), n)

\* C23. Witness loop: for odd n > 3, isWitness_big(a, n, s, d) is true iff
\* a^d mod n is not 1 and a^(d * 2^r) mod n is not n - 1 for every r in
\* 0..s-1; isProbablePrime_big returns false at the first base that is a
\* witness, without testing later bases, and true only when no selected base
\* is a witness.
C23_WitnessLoop ==
    LET n == Value(x)
        selected == BasesBelow(<<2, 7, 61>>, n)
        oddAbove3 == n > 3 /\ n % 2 = 1
    IN  /\ op = "isWitness_big" => (verdict <=> WitnessOf(Value(z), n))
        /\ (op \in {"prime", "prime_done"} /\ oddAbove3) =>
               /\ Len(out) <= Len(selected)
               /\ out = SubSeq(selected, 1, Len(out))
               /\ \A i \in 1..(Len(out) - 1) : ~WitnessOf(out[i], n)
        /\ (op = "prime" /\ oddAbove3) =>
               \A i \in 1..Len(out) : ~WitnessOf(out[i], n)
        /\ (op = "prime_done" /\ oddAbove3 /\ ~verdict) =>
               (out # <<>> /\ WitnessOf(out[Len(out)], n))
        /\ (op = "prime_done" /\ oddAbove3 /\ verdict) =>
               (out = selected /\ \A i \in 1..Len(out) : ~WitnessOf(out[i], n))

-----------------------------------------------------------------------------
(* The three decompositions of n - 1 *)

\* decompose on 64-bit words, over st = <<s, d>>
RECURSIVE Decompose64Loop(_)
Decompose64Loop(st) ==
    IF BitAnd(st[2], 1) = 0 THEN Decompose64Loop(<<st[1] + 1, WordShr(st[2], 1)>>)
    ELSE st

decompose(n_minus_1) == Decompose64Loop(<<0, n_minus_1>>)

\* the halving loop of is_prime_miller_rabin, over st = <<d, r>>
RECURSIVE HalvingLoop(_)
HalvingLoop(st) ==
    IF is_even(st[1]) THEN HalvingLoop(<<Shr(st[1], 1), st[2] + 1>>) ELSE st

\* decompose_big(n - BigInt(1)) as isProbablePrime_big calls it:
\* res = d, res2 = <<s>>
DoDecomposeBig ==
    /\ op = "none"
    /\ LET sd == decompose_big(Sub(x, BigIntFromWord(1)))
       IN  Returns("decompose_big", sd[2], <<sd[1]>>)
    /\ UNCHANGED <<wbits, loop, x, y, z, sh, str, rounds, out, verdict>>

\* decompose(n - 1ULL) as isPropablePrime calls it, for n of one limb
DoDecompose64 ==
    /\ op = "none"
    /\ Len(x) = 1
    /\ LET sd == decompose(Wrap(x[1] - 1))
       IN  Returns("decompose", BigIntFromWord(sd[2]), <<sd[1]>>)
    /\ UNCHANGED <<wbits, loop, x, y, z, sh, str, rounds, out, verdict>>

\* step 2 of is_prime_miller_rabin
DoHalving ==
    /\ op = "none"
    /\ LET n_minus_1 == Sub(x, BigIntFromWord(1))
           dr == HalvingLoop(<<n_minus_1, 0>>)
       IN  Returns("halving", dr[1], <<dr[2]>>)
    /\ UNCHANGED <<wbits, loop, x, y, z, sh, str, rounds, out, verdict>>

\* odd candidates from 3 up: every one of one wide limb, and those of up to
\* MaxLimbs narrow limbs
InitDecompose ==
    /\ \/ /\ wbits = MRBits
          /\ x \in {BigIntFromWord(v) : v \in 3..UINT64_MAX}
       \/ /\ wbits = LimbBits
          /\ x \in Operands(MaxLimbs)
    /\ ~is_even(x)
    /\ Value(x) >= 3
    /\ y = BigIntDefault
    /\ z = BigIntDefault
    /\ sh = 0
    /\ str = <<>>
    /\ rounds = 0
    /\ Idle

NextDecompose == DoDecomposeBig \/ DoDecompose64 \/ DoHalving

SpecDecompose == InitDecompose /\ [][NextDecompose]_vars

\* C24. Decomposition: for every odd n >= 3, decompose_big(n - 1), the loop
\* in is_prime_miller_rabin and the 64-bit decompose return (s, d) with d
\* odd, s >= 1 and d * 2^s = n - 1.
C24_Decomposition ==
    op \in {"decompose_big", "decompose", "halving"} =>
        /\ Value(res) % 2 = 1
        /\ res2[1] >= 1
        /\ Value(res) * Pow2(res2[1]) = Value(x) - 1
        /\ IsNormalized(res)

\* more halvings than one limb holds bits, on a candidate of several limbs
C24_Witness ==
    /\ op = "decompose_big"
    /\ Len(x) = MaxLimbs
    /\ res2[1] > wbits

-----------------------------------------------------------------------------
(* Deterministic base selection.  x holds the 64-bit word n as three digits
   of 24 bits; out receives the bases *)

\* the words next to w
WordPred(w) ==
    IF w[3] > 0 THEN <<w[1], w[2], w[3] - 1>>
    ELSE IF w[2] > 0 THEN <<w[1], w[2] - 1, Pow2(24) - 1>>
    ELSE <<w[1] - 1, Pow2(24) - 1, Pow2(24) - 1>>

WordSucc(w) ==
    IF w[3] < Pow2(24) - 1 THEN <<w[1], w[2], w[3] + 1>>
    ELSE IF w[2] < Pow2(24) - 1 THEN <<w[1], w[2] + 1, 0>>
    ELSE <<w[1] + 1, 0, 0>>

\* the small words, the words at and next to each threshold, the largest word
SelectionInputs ==
    {WordOf(v) : v \in 0..MaxSmallN}
        \cup UNION {{WordPred(t), t, WordSucc(t)} :
                        t \in {Threshold2_32, Threshold6Bases, Threshold7Bases}}
        \cup {WordMax}

\* chooseBases(n, rounds, deterministic) with deterministic true or
\* rounds <= 0
DoChooseDeterministic ==
    /\ op = "none"
    /\ \E deterministic \in BOOLEAN :
          /\ deterministic \/ rounds <= 0
          /\ op' = IF deterministic THEN "chooseBases_det" ELSE "chooseBases_norounds"
          /\ out' = chooseBases(x, rounds, deterministic, <<>>)
    /\ UNCHANGED <<wbits, loop, x, y, z, sh, str, rounds, res, res2, verdict, err>>

InitSelection ==
    /\ wbits = MRBits
    /\ x \in SelectionInputs
    /\ y = BigIntDefault
    /\ z = BigIntDefault
    /\ sh = 0
    /\ str = <<>>
    /\ rounds \in -1..MaxRounds
    /\ Idle

NextSelection == DoChooseDeterministic

SpecSelection == InitSelection /\ [][NextSelection]_vars

\* the members of bases that are below the word w, in order
RECURSIVE KeepBelow(_, _)
KeepBelow(bases, w) ==
    IF bases = <<>> THEN <<>>
    ELSE IF WordLess(WordOf(Head(bases)), w)
         THEN <<Head(bases)>> \o KeepBelow(Tail(bases), w)
         ELSE KeepBelow(Tail(bases), w)

\* C25. Deterministic base selection: no base for n <= 4; otherwise {2,7,61}
\* for n < 2^32, {2,3,5,7,11,13} for n < 3474749660383, {2,3,5,7,11,13,17}
\* for n < 341550071728321 and {2,325,9375,28178,450775,9780504,1795265022}
\* for larger n, with every base >= n removed, so each base a satisfies
\* 2 <= a < n; rounds <= 0 selects these sets when deterministic is false.
C25_DeterministicBases ==
    op \in {"chooseBases_det", "chooseBases_norounds"} =>
        /\ WordLess(x, <<0, 0, 5>>) => out = <<>>
        /\ (~WordLess(x, <<0, 0, 5>>) /\ WordLess(x, <<0, 256, 0>>)) =>
               out = KeepBelow(<<2, 7, 61>>, x)
        /\ (~WordLess(x, <<0, 256, 0>>) /\ WordLess(x, <<0, 207111, 3677407>>)) =>
               out = <<2, 3, 5, 7, 11, 13>>
        /\ (~WordLess(x, <<0, 207111, 3677407>>)
                /\ WordLess(x, <<1, 3580754, 11716801>>)) =>
               out = <<2, 3, 5, 7, 11, 13, 17>>
        /\ ~WordLess(x, <<1, 3580754, 11716801>>) =>
               out = <<2, 325, 9375, 28178, 450775, 9780504, 1795265022>>
        /\ \A i \in 1..Len(out) : out[i] >= 2 /\ WordLess(WordOf(out[i]), x)
        /\ op = "chooseBases_norounds" => rounds <= 0

\* n = 7: rounds <= 0 without the deterministic flag, and the bases 7 and 61
\* removed
C25_Witness ==
    /\ op = "chooseBases_norounds"
    /\ x = <<0, 0, 7>>
    /\ out = <<2>>

-----------------------------------------------------------------------------
(* Candidates of several limbs, and the round count *)

\* n.to_uint64(); out receives the word
DoToUint64 ==
    /\ op = "none"
    /\ op' = "to_uint64"
    /\ out' = to_uint64(x)
    /\ UNCHANGED <<wbits, loop, x, y, z, sh, str, rounds, res, res2, verdict, err>>

\* a second call of isProbablePrime_big on the same n with any round count;
\* sh keeps the round count and res2 the second verdict
DoIsProbablePrimeBigAgain ==
    /\ op = "isProbablePrime_big"
    /\ \E r \in -1..(MaxRounds + 1) :
          /\ sh' = r
          /\ res2' = <<isProbablePrime_big(x, r)>>
    /\ op' = "isProbablePrime_big_again"
    /\ UNCHANGED <<wbits, loop, x, y, z, str, rounds, res, out, verdict, err>>

\* candidates of one wide limb up to MaxCandidate, and candidates of two to
\* MaxLimbs narrow limbs
InitWide ==
    /\ \/ /\ wbits = MRBits
          /\ x \in {BigIntFromWord(v) : v \in 0..MaxCandidate}
       \/ /\ wbits = LimbBits
          /\ x \in Operands(MaxLimbs)
          /\ Len(x) > 1
    /\ y = BigIntDefault
    /\ z = BigIntDefault
    /\ sh = 0
    /\ str = <<>>
    /\ rounds \in -1..MaxRounds
    /\ Idle

NextWide ==
    \/ DoToUint64
    \/ PrimeStart
    \/ DoIsProbablePrimeBig
    \/ DoIsProbablePrimeBigAgain

SpecWide == InitWide /\ [][NextWide]_vars

\* C26. Wide candidates and ignored round count: to_uint64 returns the
\* single limb of a one-limb value and 2^64 - 1 for a value of more limbs,
\* so for every n of two or more limbs isProbablePrime_big selects exactly
\* the bases {2,325,9375,28178,450775,9780504,1795265022}; the verdict of
\* isProbablePrime_big(n, rounds) is the same for every round count and
\* across repeated calls.
C26_WideCandidates ==
    /\ (op = "to_uint64" /\ Len(x) = 1) => out = <<0, 0, x[1]>>
    /\ (op = "to_uint64" /\ Len(x) > 1) => out = <<65535, 16777215, 16777215>>
    /\ (op = "prime" /\ Len(x) > 1) =>
           loop[1] = <<2, 325, 9375, 28178, 450775, 9780504, 1795265022>>
    /\ op = "isProbablePrime_big_again" => res2[1] = verdict

\* a composite candidate judged again with another round count
C26_Witness ==
    /\ op = "isProbablePrime_big_again"
    /\ sh > 0
    /\ rounds <= 0
    /\ Value(x) = 91
    /\ ~verdict

-----------------------------------------------------------------------------
(* is_prime_miller_rabin(x, rounds), one round per step.
   loop = <<d, r, i>>; res keeps the base of the last round *)

\* every value random_bigint_in_range(min, max) can return, for min <= max
RandomInRange(min, max) ==
    LET range == Add(Sub(max, min), BigIntFromWord(1))
        bits == bit_length(range)
        n == (bits + (wbits - 1)) \div wbits
        num_limbs == IF n = 0 THEN 1 ELSE n
    IN  IF LessEq(range, BigIntFromWord(0)) THEN {min}
        ELSE {Add(MaskDraw(limbs, bits), min) :
                 limbs \in {l \in GenLimbs(num_limbs) : Less(MaskDraw(l, bits), range)}}

\* step 5, "for (j = 0; j < r - 1; ++j)", over st = <<x, j>>: TRUE when
\* n - 1 was met
RECURSIVE RoundSquarings(_, _, _, _)
RoundSquarings(st, n, n_minus_1, r) ==
    IF ~(st[2] < r - 1) THEN FALSE
    ELSE LET x2 == Mod(Mul(st[1], st[1]), n)
         IN  IF x2 = n_minus_1 THEN TRUE
             ELSE RoundSquarings(<<x2, st[2] + 1>>, n, n_minus_1, r)

\* steps 4 to 6 for the base a: TRUE when the round lets n pass
RoundPasses(a, n, d, r) ==
    LET xx == powMod(a, d, n)
        n_minus_1 == Sub(n, BigIntFromWord(1))
    IN  IF xx = BigIntFromWord(1) \/ xx = n_minus_1 THEN TRUE
        ELSE RoundSquarings(<<xx, 0>>, n, n_minus_1, r)

\* steps 1 and 2
MillerRabinStart ==
    /\ op = "none"
    /\ IF Less(x, BigIntFromWord(2))
       THEN op' = "miller_rabin_done" /\ verdict' = FALSE /\ loop' = loop
       ELSE IF x = BigIntFromWord(2) \/ x = BigIntFromWord(3)
       THEN op' = "miller_rabin_done" /\ verdict' = TRUE /\ loop' = loop
       ELSE IF is_even(x)
       THEN op' = "miller_rabin_done" /\ verdict' = FALSE /\ loop' = loop
       ELSE LET dr == HalvingLoop(<<Sub(x, BigIntFromWord(1)), 0>>)
            IN  /\ op' = "miller_rabin"
                /\ loop' = <<dr[1], dr[2], 0>>
                /\ verdict' = verdict
    /\ UNCHANGED <<wbits, x, y, z, sh, str, rounds, res, res2, out, err>>

\* one round of the witness loop with the base the sampler returns
MillerRabinRound ==
    /\ op = "miller_rabin"
    /\ loop[3] < rounds
    /\ \E a \in RandomInRange(BigIntFromWord(2), Sub(x, BigIntFromWord(2))) :
          /\ res' = a
          /\ IF RoundPasses(a, x, loop[1], loop[2])
             THEN /\ loop' = [loop EXCEPT ![3] = loop[3] + 1]
                  /\ UNCHANGED <<op, verdict>>
             ELSE /\ op' = "miller_rabin_done"
                  /\ verdict' = FALSE
                  /\ loop' = <<>>
    /\ UNCHANGED <<wbits, x, y, z, sh, str, rounds, res2, out, err>>

\* step 7
MillerRabinReturn ==
    /\ op = "miller_rabin"
    /\ ~(loop[3] < rounds)
    /\ op' = "miller_rabin_done"
    /\ verdict' = TRUE
    /\ loop' = <<>>
    /\ UNCHANGED <<wbits, x, y, z, sh, str, rounds, res, res2, out, err>>

\* candidates of up to MaxLimbs - 1 limbs
InitMillerRabin ==
    /\ wbits = LimbBits
    /\ x \in Operands(MaxLimbs - 1)
    /\ y = BigIntDefault
    /\ z = BigIntDefault
    /\ sh = 0
    /\ str = <<>>
    /\ rounds \in 0..(MaxRounds + 1)
    /\ Idle

NextMillerRabin == MillerRabinStart \/ MillerRabinRound \/ MillerRabinReturn

SpecMillerRabin == InitMillerRabin /\ [][NextMillerRabin]_vars

\* C27. The probabilistic test has no false negatives: for every prime n and
\* every round count, is_prime_miller_rabin returns true whatever bases in
\* [2, n-2] the sampler draws; for composite odd n it returns false as soon
\* as a drawn base is a witness.
C27_NoFalseNegative ==
    LET n == Value(x)
        drew == res # NoResult
    IN  /\ (op = "miller_rabin_done" /\ IsPrime(n)) => verdict
        /\ (op \in {"miller_rabin", "miller_rabin_done"} /\ drew) =>
               (Value(res) >= 2 /\ Value(res) <= n - 2)
        /\ (op = "miller_rabin" /\ drew) => ~WitnessOf(Value(res), n)
        /\ (op = "miller_rabin_done" /\ drew /\ WitnessOf(Value(res), n)) => ~verdict
        /\ (op = "miller_rabin_done" /\ n > 3 /\ n % 2 = 1 /\ ~verdict) =>
               (drew /\ WitnessOf(Value(res), n))

-----------------------------------------------------------------------------
(* Termination.  divmod(x, y), powMod_big(x, y, z) and isProbablePrime_big(x)
   run one loop iteration at a time.
   powMod_big: loop = <<res, base, exp, iterations>>
   decompose_big inside isProbablePrime_big: loop = <<s, d>> *)

\* powMod_big up to its loop
PowStart ==
    /\ op = "none"
    /\ IF DivmodThrows(x, z)
       THEN Throws("powsteps_done", "DivideByZero") /\ loop' = loop
       ELSE /\ op' = "powsteps"
            /\ loop' = <<BigIntFromWord(1), Mod(x, z), y, 0>>
            /\ UNCHANGED <<res, res2, err>>
    /\ UNCHANGED <<wbits, x, y, z, sh, str, rounds, out, verdict>>

\* one iteration of while (!exp.is_zero())
PowStep ==
    /\ op = "powsteps"
    /\ ~is_zero(loop[3])
    /\ loop' = <<IF ~is_even(loop[3]) THEN Mod(Mul(loop[1], loop[2]), z) ELSE loop[1],
                 Mod(Mul(loop[2], loop[2]), z),
                 Shr(loop[3], 1),
                 loop[4] + 1>>
    /\ UNCHANGED <<wbits, x, y, z, sh, str, rounds, op, res, res2, out, verdict, err>>

\* the loop exits: return res
PowReturn ==
    /\ op = "powsteps"
    /\ is_zero(loop[3])
    /\ Returns("powsteps_done", loop[1], NoResult)
    /\ loop' = <<>>
    /\ UNCHANGED <<wbits, x, y, z, sh, str, rounds, out, verdict>>

\* isProbablePrime_big up to the loop of decompose_big
HalveStart ==
    /\ op = "none"
    /\ IF Less(x, BigIntFromWord(2))
       THEN op' = "prime_done" /\ verdict' = FALSE /\ loop' = loop
       ELSE IF x = BigIntFromWord(2) \/ x = BigIntFromWord(3)
       THEN op' = "prime_done" /\ verdict' = TRUE /\ loop' = loop
       ELSE IF is_even(x)
       THEN op' = "prime_done" /\ verdict' = FALSE /\ loop' = loop
       ELSE /\ op' = "halving"
            /\ loop' = <<0, Sub(x, BigIntFromWord(1))>>
            /\ verdict' = verdict
    /\ UNCHANGED <<wbits, x, y, z, sh, str, rounds, res, res2, out, err>>

\* one iteration of while (d.is_even())
HalveStep ==
    /\ op = "halving"
    /\ is_even(loop[2])
    /\ loop' = <<loop[1] + 1, Shr(loop[2], 1)>>
    /\ UNCHANGED <<wbits, x, y, z, sh, str, rounds, op, res, res2, out, verdict, err>>

\* decompose_big returns; the bases are chosen
HalveExit ==
    /\ op = "halving"
    /\ ~is_even(loop[2])
    /\ op' = "prime"
    /\ loop' = <<chooseBases(to_uint64(x), rounds, TRUE, <<>>), loop[1], loop[2]>>
    /\ UNCHANGED <<wbits, x, y, z, sh, str, rounds, res, res2, out, verdict, err>>

\* the moduli of powMod_big: one limb, or more with the top limb full
Moduli == {a \in Operands(MaxLimbs - 1) : Len(a) = 1 \/ a[Len(a)] = UINT64_MAX}

InitTermination ==
    /\ wbits = LimbBits
    /\ x \in Operands(MaxLimbs)
    /\ y \in Operands(MaxLimbs - 1)
    /\ z \in Moduli
    /\ sh = 0
    /\ str = <<>>
    /\ rounds = 0
    /\ Idle

NextTermination ==
    \/ DivStart \/ DivDoubleStep \/ DivStepBack \/ DivWalkStep \/ DivReturn
    \/ PowStart \/ PowStep \/ PowReturn
    \/ HalveStart \/ HalveStep \/ HalveExit \/ PrimeBase \/ PrimeReturn

Returned == op \in {"divsteps_done", "powsteps_done", "prime_done"}

\* a call that has not returned keeps taking steps
SpecTermination ==
    /\ InitTermination
    /\ [][NextTermination]_vars
    /\ ([]<>Returned \/ []<><<NextTermination>>_vars)

LoopBounds ==
    /\ op = "divsteps" =>
           /\ loop[6] <= bit_length(x) - bit_length(y) + 1
           /\ loop[7] <= loop[6]
           /\ (loop[1] = "walk" /\ is_zero(loop[5])) => loop[7] = loop[6]
    /\ op = "powsteps" => loop[4] + bit_length(loop[3]) = bit_length(y)
    /\ op = "halving" => (~is_zero(loop[2]) /\ Value(x) >= 2)
    /\ (op = "prime_done" /\ Value(x) < 2) => (~verdict /\ out = <<>>)

\* C28. Termination: divmod returns for every dividend and every nonzero
\* divisor, after at most bit_length(dividend) - bit_length(divisor) + 1
\* doublings and one walk-down iteration per doubling; powMod_big returns for
\* every exponent and nonzero modulus; isProbablePrime_big returns for every
\* n, and for n = 0 and n = 1 the halving loop of decompose_big is never
\* entered on the value 0.
C28_Termination == [](LoopBounds) /\ <>Returned

C28_Witness ==
    /\ op = "divsteps"
    /\ loop[1] = "walk"
    /\ is_zero(loop[5])
    /\ loop[6] = bit_length(x) - bit_length(y) + 1
    /\ loop[7] = loop[6]
    /\ loop[6] >= 3

-----------------------------------------------------------------------------
(* The subtraction of the earlier BigInt (src/unnamed/part_001) beside the
   one of bigInt.h *)

\* one iteration of the earlier loop: <<limb written, borrow out>>
SubLimbEarlier(limb, b_limb, borrow) ==
    LET diff == Wrap(limb - borrow)
        borrow1 == diff > limb
        written == Wrap(diff - b_limb)
        borrow2 == written > diff
    IN  <<written, IF borrow1 \/ borrow2 THEN 1 ELSE 0>>

\* the earlier loop; an index past the end of result is out of bounds
RECURSIVE SubLoopEarlier(_, _, _, _)
SubLoopEarlier(result, b, i, borrow) ==
    IF ~(i <= Len(b) \/ borrow # 0) THEN result
    ELSE IF i > Len(result) THEN NoResult
    ELSE LET b_limb == IF i <= Len(b) THEN b[i] ELSE 0
             s == SubLimbEarlier(result[i], b_limb, borrow)
         IN  SubLoopEarlier([result EXCEPT ![i] = s[1]], b, i + 1, s[2])

\* the earlier operator- when it returns
SubEarlier(a, b) ==
    LET r == SubLoopEarlier(a, b, 1, 0)
    IN  IF r = NoResult THEN NoResult ELSE normalize(r)

\* x - y by both implementations: res by bigInt.h, res2 by the earlier one
DoSubBoth ==
    /\ op = "none"
    /\ IF SubThrows(x, y)
       THEN Throws("sub_both", "Underflow")
       ELSE Returns("sub_both", Sub(x, y), SubEarlier(x, y))
    /\ UNCHANGED <<wbits, loop, x, y, z, sh, str, rounds, out, verdict>>

InitSubBoth ==
    /\ wbits = LimbBits
    /\ x \in Operands(MaxLimbs)
    /\ y \in Operands(MaxLimbs)
    /\ z = BigIntDefault
    /\ sh = 0
    /\ str = <<>>
    /\ rounds = 0
    /\ Idle

NextSubBoth == DoSubBoth

SpecSubBoth == InitSubBoth /\ [][NextSubBoth]_vars

\* C29. The two subtraction implementations agree: for all a >= b of any
\* limb count the compare-then-borrow subtraction of bigInt.h and the
\* wrap-detecting subtraction of the earlier version return the same value,
\* and neither reads a limb index past the end of the minuend.
C29_SubtractionsAgree ==
    (op = "sub_both" /\ err = "none") =>
        /\ res # NoResult
        /\ res2 # NoResult
        /\ res = res2

-----------------------------------------------------------------------------
(* Miller-Rabin on native 64-bit words (helper.cpp) beside the BigInt one.
   A word is an integer in 0 .. UINT64_MAX. *)

\* mutant: the product is taken in uint64_t, not in __uint128_t
mulMod_narrow(a, b, mod) == Wrap(a * b) % mod

\* mulMod: the product in __uint128_t
mulMod(a, b, mod) == (a * b) % mod

\* the loop of powMod on words, over st = <<res, base, exp>>
RECURSIVE PowLoop64(_, _)
PowLoop64(st, mod) ==
    IF ~(st[3] > 0) THEN st[1]
    ELSE PowLoop64(<<IF BitAnd(st[3], 1) # 0 THEN mulMod(st[1], st[2], mod) ELSE st[1],
                     mulMod(st[2], st[2], mod),
                     WordShr(st[3], 1)>>, mod)

\* powMod on words, mod # 0
powMod64(base, exp, mod) ==
    IF mod = 1 THEN 0 ELSE PowLoop64(<<1, base % mod, exp>>, mod)

\* the squaring loop of isWitness: TRUE when n - 1 is never met
RECURSIVE SquaringLoop64(_, _, _, _)
SquaringLoop64(xx, n, i, s) ==
    IF ~(i < s) THEN TRUE
    ELSE LET x2 == mulMod(xx, xx, n)
         IN  IF x2 = Wrap(n - 1) THEN FALSE ELSE SquaringLoop64(x2, n, i + 1, s)

\* isWitness on words
isWitness(a, n, s, d) ==
    LET xx == powMod64(a, d, n)
    IN  IF xx = 1 \/ xx = Wrap(n - 1) THEN FALSE
        ELSE SquaringLoop64(xx, n, 1, s)

\* the loop over the bases of isPropablePrime
RECURSIVE BasesLoop64(_, _, _, _)
BasesLoop64(bases, n, s, d) ==
    IF bases = <<>> THEN TRUE
    ELSE IF Head(bases) % n = 0 THEN BasesLoop64(Tail(bases), n, s, d)
    ELSE IF isWitness(Head(bases), n, s, d) THEN FALSE
    ELSE BasesLoop64(Tail(bases), n, s, d)

\* isPropablePrime on words
isPropablePrime(n, rounds_in) ==
    IF n < 2 THEN FALSE
    ELSE IF n = 2 \/ n = 3 THEN TRUE
    ELSE IF BitAnd(n, 1) = 0 THEN FALSE
    ELSE LET sd == decompose(Wrap(n - 1))
         IN  BasesLoop64(chooseBases(WordOf(n), rounds_in, TRUE, <<>>), n, sd[1], sd[2])

\* both tests on the one-limb candidate x: verdict by isProbablePrime_big,
\* res2 by isPropablePrime
DoIsPrimeBoth ==
    /\ op = "none"
    /\ op' = "isPrime_both"
    /\ verdict' = isProbablePrime_big(x, rounds)
    /\ res2' = <<isPropablePrime(x[1], rounds)>>
    /\ UNCHANGED <<wbits, loop, x, y, z, sh, str, rounds, res, out, err>>

\* x^y mod z by both: res by powMod_big, res2 by powMod; a zero modulus
\* stops both
DoPowModBoth ==
    /\ op = "none"
    /\ IF DivmodThrows(x, z)
       THEN Throws("powMod_both", "DivideByZero")
       ELSE Returns("powMod_both", powMod_big(x, y, z),
                    BigIntFromWord(powMod64(x[1], y[1], z[1])))
    /\ UNCHANGED <<wbits, loop, x, y, z, sh, str, rounds, out, verdict>>

\* the words powMod is compared on: the ends of the range and small values
PowWords == LimbSample \cup {2, 3, 5}

\* every one-limb candidate with the round counts, and the sampled powMod
\* arguments with every small and every large modulus
InitBoth ==
    /\ wbits = MRBits
    /\ \/ /\ x \in {BigIntFromWord(v) : v \in 0..UINT64_MAX}
          /\ y = BigIntDefault
          /\ z = BigIntDefault
          /\ rounds \in -1..MaxRounds
       \/ /\ x \in {BigIntFromWord(v) : v \in PowWords}
          /\ y \in {BigIntFromWord(v) : v \in PowWords}
          /\ z \in {BigIntFromWord(v) : v \in (1..MaxSmallN) \cup ((UINT64_MAX - 3)..UINT64_MAX)}
          /\ rounds = 0
    /\ sh = 0
    /\ str = <<>>
    /\ Idle

NextBoth == DoIsPrimeBoth \/ DoPowModBoth

SpecBoth == InitBoth /\ [][NextBoth]_vars

\* C30. The 64-bit and the big-integer Miller-Rabin tests agree: for every n
\* of one limb isPropablePrime(n, rounds) and isProbablePrime_big(BigInt(n),
\* rounds) return the same verdict, and powMod(a, e, m) equals
\* powMod_big(a, e, m) for every a, e and m >= 2.
C30_TestsAgree ==
    /\ op = "isPrime_both" => (verdict <=> res2[1])
    /\ (op = "powMod_both" /\ Value(z) >= 2) => (err = "none" /\ res = res2)

\* 561 = 3 * 11 * 17 is rejected by both, and 5^5 mod 1023 is 56 by both
C30_Witness ==
    \/ /\ op = "isPrime_both"
       /\ Value(x) = 561
       /\ ~verdict
       /\ res2 = <<FALSE>>
    \/ /\ op = "powMod_both"
       /\ Value(x) = 5 /\ Value(y) = 5 /\ Value(z) = UINT64_MAX
       /\ res = res2
       /\ Value(res) = 3125 % UINT64_MAX

=============================================================================
